---- MODULE Spec2Model ----
(***************************************************************************)
(* The AI enrichment and query service of second-brain                     *)
(* (src/src/app/lib/ai-service.ts): the rate limiter, the guarded upstream *)
(* call, JSON extraction, the metadata pipeline with its offline           *)
(* fallbacks, the conversational query and the embedding call.             *)
(*                                                                         *)
(* Strings are TLA+ strings handled character by character (Len, SubSeq,   *)
(* \o). Times are milliseconds, as Date.now() gives them.                  *)
(***************************************************************************)
EXTENDS Integers, Sequences, FiniteSets, TLC

VARIABLES
    now,                  \* the value Date.now() returns
    ticks,                \* how many times the clock has advanced
    callTimestamps,       \* ai-service.ts: const callTimestamps: number[]
    quotaExhaustedUntil,  \* ai-service.ts: let quotaExhaustedUntil
    recentAdmits,         \* history: the times of the last admitted calls
    hints,                \* history: the first cooldown rejection since the last markQuotaExhausted
    ops                   \* the operations in flight, one record per slot

vars == <<now, ticks, callTimestamps, quotaExhaustedUntil, recentAdmits, hints, ops>>

(***************************************************************************)
(* Program constants                                                       *)
(***************************************************************************)
MAX_CALLS_PER_MINUTE == 10
QUOTA_COOLDOWN_MS == 60000
WINDOW_MS == 60000
MS_PER_SECOND == 1000
MIN_SUMMARY_LENGTH == 10
MAX_TAGS == 5
MAX_INFERRED_TAGS == 4
MAX_CONTEXT_ITEMS == 25
MAX_BODY_LENGTH == 200
MIN_SENTENCE_LENGTH == 20
MAX_SENTENCE_LENGTH == 200
LONG_SENTENCE_LENGTH == 60
MIN_TITLE_WORD_LENGTH == 3
CLEAN_LIMIT == 150
TOP_SENTENCES == 2

(***************************************************************************)
(* Bounds of the model                                                     *)
(***************************************************************************)
MaxTicks == 2      \* clock advances explored
NumOps == 2        \* operations that may be in flight together
MaxDataCalls == 2  \* admitted calls after which DataSpec starts no operation

Min(S) == CHOOSE x \in S : \A y \in S : x <= y
Max(S) == 0 - Min({0 - x : x \in S})

(***************************************************************************)
(* JavaScript string primitives                                            *)
(***************************************************************************)
UPPER == "ABCDEFGHIJKLMNOPQRSTUVWXYZ"
LOWER == "abcdefghijklmnopqrstuvwxyz"
DIGITS == "0123456789"

CharAt(s, i) == SubSeq(s, i, i)

CharsOf(s) == {CharAt(s, i) : i \in 1..Len(s)}

\* the regular expression classes \s, \d and \w
Spaces == {" ", "\n", "\t", "\r"}
DigitChars == CharsOf(DIGITS)
UpperChars == CharsOf(UPPER)
WordChars == CharsOf(UPPER) \cup CharsOf(LOWER) \cup CharsOf(DIGITS) \cup {"_"}

IsSpace(c) == c \in Spaces

IsDigit(c) == c \in DigitChars

IsWordChar(c) == c \in WordChars

LowerOf == [c \in UpperChars |-> CharAt(LOWER, CHOOSE i \in 1..Len(UPPER) : CharAt(UPPER, i) = c)]

LowerChar(c) == IF c \in UpperChars THEN LowerOf[c] ELSE c

\* the concatenation of the strings q[lo..hi]
RECURSIVE concatRange(_, _, _)
concatRange(q, lo, hi) ==
    IF lo > hi THEN ""
    ELSE IF lo = hi THEN q[lo]
    ELSE LET mid == (lo + hi) \div 2
         IN  concatRange(q, lo, mid) \o concatRange(q, mid + 1, hi)

concat(q) == concatRange(q, 1, Len(q))

toLowerCase(s) == concat([i \in 1..Len(s) |-> LowerChar(CharAt(s, i))])

\* s.slice(0, n)
sliceTo(s, n) == SubSeq(s, 1, IF n < Len(s) THEN n ELSE Len(s))

trim(s) ==
    LET keep == {i \in 1..Len(s) : ~IsSpace(CharAt(s, i))}
    IN  IF keep = {} THEN "" ELSE SubSeq(s, Min(keep), Max(keep))

includes(s, sub) ==
    \/ sub = ""
    \/ \E i \in 1..(Len(s) - Len(sub) + 1) : SubSeq(s, i, i + Len(sub) - 1) = sub

startsWith(s, p) == Len(p) <= Len(s) /\ SubSeq(s, 1, Len(p)) = p

\* s.replace(/[...]+/g, by) for a class of characters: every maximal run of
\* characters of the class becomes one copy of by
replaceRuns(s, class, by) ==
    concat([i \in 1..Len(s) |->
               IF CharAt(s, i) \notin class THEN CharAt(s, i)
               ELSE IF i > 1 /\ CharAt(s, i - 1) \in class THEN ""
               ELSE by])

\* s.replace(/\n+/g, " ")
replaceNewlines(s) == replaceRuns(s, {"\n"}, " ")

\* s.replace(/\s+/g, "-")
hyphenate(s) == replaceRuns(s, Spaces, "-")

\* s.replace(/\s\S*$/, ""): cut from the last whitespace character on
cutLastWord(s) ==
    LET ws == {i \in 1..Len(s) : IsSpace(CharAt(s, i))}
    IN  IF ws = {} THEN s ELSE SubSeq(s, 1, Max(ws) - 1)

\* the elements of a finite set of integers in increasing order
sortedSeq(S) ==
    [k \in 1..Cardinality(S) |-> CHOOSE i \in S : Cardinality({j \in S : j < i}) = k - 1]

\* s.split(/[...]+/) for a class of separator characters: the pieces between
\* maximal runs of separators, an empty first piece when s starts with a
\* separator and an empty last piece when it ends with one
splitRuns(s, seps) ==
    LET n == Len(s)
        starts == {i \in 1..n : CharAt(s, i) \notin seps
                                /\ (i = 1 \/ CharAt(s, i - 1) \in seps)}
        endOf(i) == Min({j \in i..n : j = n \/ CharAt(s, j + 1) \in seps})
        order == sortedSeq(starts)
        pieces == [k \in 1..Len(order) |-> SubSeq(s, order[k], endOf(order[k]))]
    IN  IF n = 0 THEN <<"">>
        ELSE (IF CharAt(s, 1) \in seps THEN <<"">> ELSE <<>>)
             \o pieces
             \o (IF CharAt(s, n) \in seps THEN <<"">> ELSE <<>>)

SentenceEnds == {".", "!", "?"}

\* The keyword patterns of the offline fallbacks have the form
\* /\b(alt|alt|...)\b/. An alternative is a sequence of literals made of word
\* characters: one literal, or two with ".?" between them (at most one
\* character that is not a line terminator). Between two \b a literal of
\* word characters can only match a whole word (a maximal run of word
\* characters), so the pattern is decided on the words of the text.
LineTerminators == {"\n", "\r"}

\* the words of s, each with the positions of its first and last character
wordsOf(s) ==
    LET n == Len(s)
        isWord == [i \in 1..n |-> IsWordChar(CharAt(s, i))]
        starts == {i \in 1..n : isWord[i] /\ (i = 1 \/ ~isWord[i - 1])}
        ends == {i \in 1..n : isWord[i] /\ (i = n \/ ~isWord[i + 1])}
    IN  {[w |-> SubSeq(s, i, Min({j \in ends : j >= i})), at |-> i, end |-> Min({j \in ends : j >= i})] :
            i \in starts}

\* whether alternative alt matches somewhere between two \b
matchesAlternative(alt, s, words) ==
    IF Len(alt) = 1
    THEN \E x \in words : x.w = alt[1]
    ELSE \/ \E x \in words : x.w = alt[1] \o alt[2]
         \/ \E x \in words :
                /\ Len(x.w) = Len(alt[1]) + Len(alt[2]) + 1
                /\ SubSeq(x.w, 1, Len(alt[1])) = alt[1]
                /\ SubSeq(x.w, Len(alt[1]) + 2, Len(x.w)) = alt[2]
         \/ \E x \in words, y \in words :
                /\ x.w = alt[1]
                /\ y.w = alt[2]
                /\ y.at = x.end + 2
                /\ CharAt(s, x.end + 1) \notin LineTerminators

\* /\b(alt1|alt2|...)\b/.test(s), given the words of s
testWords(alts, s, words) == \E a \in alts : matchesAlternative(a, s, words)

(***************************************************************************)
(* Errors and thrown values                                                *)
(***************************************************************************)
\* a thrown value: name is the class of an Error ("Error", "TypeError",
\* "AIConfigError", "AIQuotaError"), or "string" for a thrown non-Error;
\* waitSec is the number interpolated into a cooldown message, else 0
Thrown(name, message, waitSec) == [name |-> name, message |-> message, waitSec |-> waitSec]

NoError == Thrown("none", "", 0)

AIConfigError(message) == Thrown("AIConfigError", message, 0)

AIQuotaError(message) == Thrown("AIQuotaError", message, 0)

\* error instanceof Error
IsError(e) == e.name \notin {"none", "string"}

(***************************************************************************)
(* Rate limiter                                                            *)
(***************************************************************************)
\* the hint as the whole cooldown, whatever is left of it
WholeCooldownSeconds(ms) == QUOTA_COOLDOWN_MS \div MS_PER_SECOND

\* Math.floor in place of Math.ceil
FloorSeconds(ms) == ms \div MS_PER_SECOND

\* Math.ceil(ms / 1000) for ms >= 0
CeilSeconds(ms) == (ms + MS_PER_SECOND - 1) \div MS_PER_SECOND

\* while (callTimestamps.length > 0 && callTimestamps[0] < oneMinuteAgo) shift()
RECURSIVE PruneBefore(_, _)
PruneBefore(ts, oneMinuteAgo) ==
    IF Len(ts) > 0 /\ ts[1] < oneMinuteAgo THEN PruneBefore(Tail(ts), oneMinuteAgo) ELSE ts

\* checkRateLimit without the cooldown test: only the window decides
checkRateLimitWindowOnly(ts, until, t) ==
    LET pruned == PruneBefore(ts, t - WINDOW_MS)
    IN  IF Len(pruned) >= MAX_CALLS_PER_MINUTE
        THEN [threw |-> TRUE,
              error |-> AIQuotaError("Too many AI requests. Please wait a minute before trying again."),
              callTimestamps |-> pruned]
        ELSE [threw |-> FALSE, error |-> NoError, callTimestamps |-> Append(pruned, t)]

\* checkRateLimit with the ceiling compared by > instead of >=
checkRateLimitOffByOne(ts, until, t) ==
    LET pruned == PruneBefore(ts, t - WINDOW_MS)
    IN  IF t < until
        THEN [threw |-> TRUE,
              error |-> Thrown("AIQuotaError", "AI quota temporarily exhausted.", CeilSeconds(until - t)),
              callTimestamps |-> ts]
        ELSE IF Len(pruned) > MAX_CALLS_PER_MINUTE
        THEN [threw |-> TRUE,
              error |-> AIQuotaError("Too many AI requests. Please wait a minute before trying again."),
              callTimestamps |-> pruned]
        ELSE [threw |-> FALSE, error |-> NoError, callTimestamps |-> Append(pruned, t)]

\* checkRateLimit that never drops an old timestamp
checkRateLimitNoPruning(ts, until, t) ==
    IF t < until
    THEN [threw |-> TRUE,
          error |-> Thrown("AIQuotaError", "AI quota temporarily exhausted.", CeilSeconds(until - t)),
          callTimestamps |-> ts]
    ELSE IF Len(ts) >= MAX_CALLS_PER_MINUTE
    THEN [threw |-> TRUE,
          error |-> AIQuotaError("Too many AI requests. Please wait a minute before trying again."),
          callTimestamps |-> ts]
    ELSE [threw |-> FALSE, error |-> NoError, callTimestamps |-> Append(ts, t)]

\* checkRateLimit that admits without recording the time of the call
checkRateLimitNotRecording(ts, until, t) ==
    LET pruned == PruneBefore(ts, t - WINDOW_MS)
    IN  IF t < until
        THEN [threw |-> TRUE,
              error |-> Thrown("AIQuotaError", "AI quota temporarily exhausted.", CeilSeconds(until - t)),
              callTimestamps |-> ts]
        ELSE IF Len(pruned) >= MAX_CALLS_PER_MINUTE
        THEN [threw |-> TRUE,
              error |-> AIQuotaError("Too many AI requests. Please wait a minute before trying again."),
              callTimestamps |-> pruned]
        ELSE [threw |-> FALSE, error |-> NoError, callTimestamps |-> pruned]

\* checkRateLimit that records the time of a call it rejects
checkRateLimitRecordingRejected(ts, until, t) ==
    IF t < until
    THEN LET waitSec == CeilSeconds(until - t)
         IN  [threw |-> TRUE,
              error |-> Thrown("AIQuotaError",
                               "AI quota temporarily exhausted. Please wait ~"
                                   \o ToString(waitSec) \o "s and try again.",
                               waitSec),
              callTimestamps |-> Append(ts, t)]
    ELSE LET pruned == PruneBefore(ts, t - WINDOW_MS)
         IN  IF Len(pruned) >= MAX_CALLS_PER_MINUTE
             THEN [threw |-> TRUE,
                   error |-> AIQuotaError("Too many AI requests. Please wait a minute before trying again."),
                   callTimestamps |-> Append(pruned, t)]
             ELSE [threw |-> FALSE, error |-> NoError, callTimestamps |-> Append(pruned, t)]

\* checkRateLimit at time t: whether it threw, what it threw, and the
\* window it leaves behind
checkRateLimit(ts, until, t) ==
    IF t < until
    THEN LET waitSec == CeilSeconds(until - t)
         IN  [threw |-> TRUE,
              error |-> Thrown("AIQuotaError",
                               "AI quota temporarily exhausted. Please wait ~"
                                   \o ToString(waitSec) \o "s and try again.",
                               waitSec),
              callTimestamps |-> ts]
    ELSE LET pruned == PruneBefore(ts, t - WINDOW_MS)
         IN  IF Len(pruned) >= MAX_CALLS_PER_MINUTE
             THEN [threw |-> TRUE,
                   error |-> AIQuotaError("Too many AI requests. Please wait a minute before trying again."),
                   callTimestamps |-> pruned]
             ELSE [threw |-> FALSE, error |-> NoError, callTimestamps |-> Append(pruned, t)]

\* the cooldown added as seconds to a clock in milliseconds
markQuotaExhaustedSeconds(t) == t + QUOTA_COOLDOWN_MS \div MS_PER_SECOND

\* markQuotaExhausted at time t: the new deadline
markQuotaExhausted(t) == t + QUOTA_COOLDOWN_MS

(***************************************************************************)
(* getModel and safeGenerate                                               *)
(***************************************************************************)
PLACEHOLDER_KEY == "your_gemini_api_key"

\* the test of the key without the test for the placeholder
KeyMissingOnlyEmpty(apiKey) == apiKey = ""

\* !apiKey || apiKey === "your_gemini_api_key"
KeyMissing(apiKey) == apiKey = "" \/ apiKey = PLACEHOLDER_KEY

getModel(apiKey) ==
    IF KeyMissing(apiKey)
    THEN [threw |-> TRUE,
          error |-> AIConfigError("Gemini API key is not configured. Set GEMINI_API_KEY in your .env file.")]
    ELSE [threw |-> FALSE, error |-> NoError]

\* what the upstream does with a request: it answers with a text or throws
TextOutcome(text) == [kind |-> "text", text |-> text, error |-> NoError]
ThrowOutcome(e) == [kind |-> "throw", text |-> "", error |-> e]
NoOutcome == [kind |-> "none", text |-> "", error |-> NoError]

IsQuotaSignal(msg) == includes(msg, "429") \/ includes(toLowerCase(msg), "quota")

IsNotFoundSignal(msg) == includes(msg, "404") \/ includes(msg, "not found")

\* safeGenerate whose catch block wraps every failure it does not recognise
\* as a quota signal in AIConfigError
safeGenerateResumeWrapping(outcome) ==
    LET tried == IF outcome.kind = "throw" THEN outcome.error
                 ELSE IF outcome.text = "" THEN Thrown("Error", "Empty response from Gemini", 0)
                 ELSE NoError
    IN  IF tried = NoError
        THEN [threw |-> FALSE, error |-> NoError, text |-> trim(outcome.text), exhausted |-> FALSE]
        ELSE IF IsQuotaSignal(tried.message)
        THEN [threw |-> TRUE,
              error |-> AIQuotaError("Gemini API quota exceeded. The free tier has limited requests per minute. Please wait and try again."),
              text |-> "", exhausted |-> TRUE]
        ELSE [threw |-> TRUE,
              error |-> AIConfigError("Gemini model not available. Check your API key permissions."),
              text |-> "", exhausted |-> FALSE]

\* safeGenerate whose catch block tests for "not found" before it tests for
\* the quota signal
safeGenerateResumeNotFoundFirst(outcome) ==
    LET tried == IF outcome.kind = "throw" THEN outcome.error
                 ELSE IF outcome.text = "" THEN Thrown("Error", "Empty response from Gemini", 0)
                 ELSE NoError
        msg == tried.message
    IN  IF tried = NoError
        THEN [threw |-> FALSE, error |-> NoError, text |-> trim(outcome.text), exhausted |-> FALSE]
        ELSE IF IsNotFoundSignal(msg)
        THEN [threw |-> TRUE,
              error |-> AIConfigError("Gemini model not available. Check your API key permissions."),
              text |-> "", exhausted |-> FALSE]
        ELSE IF IsQuotaSignal(msg)
        THEN [threw |-> TRUE,
              error |-> AIQuotaError("Gemini API quota exceeded. The free tier has limited requests per minute. Please wait and try again."),
              text |-> "", exhausted |-> TRUE]
        ELSE [threw |-> TRUE, error |-> tried, text |-> "", exhausted |-> FALSE]

\* safeGenerate after the await: the try block's result and the catch block.
\* exhausted says whether markQuotaExhausted ran.
safeGenerateResume(outcome) ==
    LET tried == IF outcome.kind = "throw" THEN outcome.error
                 ELSE IF outcome.text = "" THEN Thrown("Error", "Empty response from Gemini", 0)
                 ELSE NoError
        msg == tried.message
    IN  IF tried = NoError
        THEN [threw |-> FALSE, error |-> NoError, text |-> trim(outcome.text), exhausted |-> FALSE]
        ELSE IF IsQuotaSignal(msg)
        THEN [threw |-> TRUE,
              error |-> AIQuotaError("Gemini API quota exceeded. The free tier has limited requests per minute. Please wait and try again."),
              text |-> "", exhausted |-> TRUE]
        ELSE IF IsNotFoundSignal(msg)
        THEN [threw |-> TRUE,
              error |-> AIConfigError("Gemini model not available. Check your API key permissions."),
              text |-> "", exhausted |-> FALSE]
        ELSE [threw |-> TRUE, error |-> tried, text |-> "", exhausted |-> FALSE]

(***************************************************************************)
(* Offline fallbacks                                                       *)
(***************************************************************************)
\* inferTagsFromContent: tagPatterns, in insertion order
tagPatterns == <<
    [tag |-> "web-development",
     alts |-> {<<"html">>, <<"css">>, <<"javascript">>, <<"react">>, <<"nextjs">>,
               <<"vue">>, <<"angular">>, <<"frontend">>, <<"web", "dev">>}],
    [tag |-> "machine-learning",
     alts |-> {<<"ml">>, <<"machine", "learning">>, <<"neural">>,
               <<"deep", "learning">>, <<"model">>, <<"training">>, <<"dataset">>}],
    [tag |-> "artificial-intelligence",
     alts |-> {<<"ai">>, <<"artificial", "intelligence">>, <<"gpt">>, <<"llm">>,
               <<"chatbot">>, <<"nlp">>}],
    [tag |-> "programming",
     alts |-> {<<"code">>, <<"coding">>, <<"programming">>, <<"developer">>,
               <<"software">>, <<"algorithm">>, <<"function">>}],
    [tag |-> "api-design",
     alts |-> {<<"api">>, <<"rest">>, <<"graphql">>, <<"endpoint">>, <<"http">>,
               <<"request">>, <<"response">>}],
    [tag |-> "database",
     alts |-> {<<"database">>, <<"sql">>, <<"nosql">>, <<"postgres">>, <<"mongo">>,
               <<"supabase">>, <<"firebase">>}],
    [tag |-> "devops",
     alts |-> {<<"devops">>, <<"docker">>, <<"kubernetes">>, <<"ci", "cd">>,
               <<"deploy">>, <<"aws">>, <<"azure">>, <<"cloud">>}],
    [tag |-> "mobile-dev",
     alts |-> {<<"mobile">>, <<"ios">>, <<"android">>, <<"react", "native">>,
               <<"flutter">>, <<"swift">>, <<"kotlin">>}],
    [tag |-> "productivity",
     alts |-> {<<"productivity">>, <<"workflow">>, <<"automat">>, <<"efficiency">>,
               <<"tool">>, <<"process">>}],
    [tag |-> "finance",
     alts |-> {<<"finance">>, <<"invest">>, <<"money">>, <<"budget">>,
               <<"revenue">>, <<"profit">>, <<"stock">>, <<"crypto">>}],
    [tag |-> "health-wellness",
     alts |-> {<<"health">>, <<"fitness">>, <<"exercise">>, <<"nutrition">>,
               <<"sleep">>, <<"meditat">>, <<"wellness">>}],
    [tag |-> "writing",
     alts |-> {<<"writing">>, <<"blog">>, <<"article">>, <<"content", "creation">>,
               <<"copywriting">>, <<"storytell">>}],
    [tag |-> "design",
     alts |-> {<<"design">>, <<"ux">>, <<"ui">>, <<"figma">>, <<"prototype">>,
               <<"wireframe">>, <<"visual">>}],
    [tag |-> "project-management",
     alts |-> {<<"project">>, <<"sprint">>, <<"agile">>, <<"kanban">>, <<"scrum">>,
               <<"milestone">>, <<"deadline">>}],
    [tag |-> "startup",
     alts |-> {<<"startup">>, <<"entrepreneur">>, <<"mvp">>, <<"founder">>,
               <<"venture">>, <<"pitch">>, <<"growth">>}],
    [tag |-> "marketing",
     alts |-> {<<"marketing">>, <<"seo">>, <<"social", "media">>, <<"brand">>,
               <<"campaign">>, <<"analytics">>, <<"growth", "hack">>}]
>>

\* inferCategoryFromContent: patterns, in priority order
categoryPatterns == <<
    [category |-> "Technology",
     alts |-> {<<"code">>, <<"programming">>, <<"api">>, <<"javascript">>,
               <<"typescript">>, <<"python">>, <<"react">>, <<"database">>,
               <<"software">>, <<"deploy">>, <<"server">>, <<"ai">>,
               <<"machine", "learning">>, <<"algorithm">>, <<"github">>,
               <<"docker">>, <<"cloud">>, <<"devops">>, <<"frontend">>,
               <<"backend">>, <<"css">>, <<"html">>, <<"framework">>}],
    [category |-> "Business",
     alts |-> {<<"revenue">>, <<"startup">>, <<"market">>, <<"strategy">>,
               <<"customer">>, <<"growth">>, <<"sales">>, <<"invest">>,
               <<"profit">>, <<"business">>, <<"entrepreneur">>,
               <<"product", "market">>, <<"kpi">>, <<"roi">>, <<"branding">>,
               <<"competitor">>}],
    [category |-> "Personal",
     alts |-> {<<"health">>, <<"fitness">>, <<"meditation">>, <<"habit">>,
               <<"journal">>, <<"mindful">>, <<"wellness">>, <<"exercise">>,
               <<"sleep">>, <<"diet">>, <<"goal", "setting">>,
               <<"self", "improve">>, <<"gratitude">>, <<"mental", "health">>}],
    [category |-> "Creative",
     alts |-> {<<"design">>, <<"illustration">>, <<"photography">>, <<"video">>,
               <<"music">>, <<"art">>, <<"creative">>, <<"typography">>,
               <<"sketch">>, <<"animation">>, <<"writing">>, <<"storytell">>,
               <<"branding">>, <<"ux">>, <<"ui">>}],
    [category |-> "Learning",
     alts |-> {<<"course">>, <<"tutorial">>, <<"textbook">>, <<"lecture">>,
               <<"syllabus">>, <<"exam">>, <<"study">>, <<"curriculum">>,
               <<"academic">>, <<"university">>, <<"certificate">>, <<"mooc">>,
               <<"edx">>, <<"coursera">>, <<"udemy">>}],
    [category |-> "Work",
     alts |-> {<<"meeting">>, <<"deadline">>, <<"sprint">>, <<"standup">>,
               <<"project", "manage">>, <<"jira">>, <<"task">>, <<"kanban">>,
               <<"scrum">>, <<"agile">>, <<"collaboration">>, <<"stakeholder">>,
               <<"milestone">>, <<"okr">>}]
>>

\* buildOfflineSummary: importantKeywords (matched case-insensitively)
importantKeywords == {<<"key">>, <<"important">>, <<"main">>, <<"essential">>,
                      <<"critical">>, <<"conclusion">>, <<"result">>, <<"therefore">>,
                      <<"however">>, <<"significantly">>, <<"notably">>, <<"ultimately">>,
                      <<"takeaway">>, <<"recommend">>, <<"suggest">>, <<"highlight">>,
                      <<"summary">>}

\* Array.prototype.map over a sequence
mapSeq(q, F(_)) == [i \in 1..Len(q) |-> F(q[i])]

\* sentences.indexOf(s), 0-based: the first position holding an equal string
indexOf(q, x) == Min({i \in 1..Len(q) : q[i] = x}) - 1

\* the candidate sentences of buildOfflineSummary
candidateSentences(content) ==
    SelectSeq(mapSeq(splitRuns(replaceNewlines(content), SentenceEnds), trim),
              LAMBDA x : Len(x) > MIN_SENTENCE_LENGTH /\ Len(x) < MAX_SENTENCE_LENGTH)

\* title.toLowerCase().split(/\s+/).filter((w) => w.length > 3)
titleWordsOf(title) ==
    SelectSeq(splitRuns(toLowerCase(title), Spaces),
              LAMBDA w : Len(w) > MIN_TITLE_WORD_LENGTH)

\* the score the map callback gives sentence x of the candidate list
sentenceScore(sentences, titleWords, x) ==
    LET lower == toLowerCase(x)
        idx == indexOf(sentences, x)
    IN  (IF testWords(importantKeywords, lower, wordsOf(lower)) THEN 3 ELSE 0)
        + Cardinality({k \in 1..Len(titleWords) : includes(lower, titleWords[k])})
        + (IF idx > 0 THEN 1 ELSE 0)
        + (IF 2 * idx >= Len(sentences) THEN 1 ELSE 0)
        + (IF Len(x) > LONG_SENTENCE_LENGTH THEN 1 ELSE 0)

\* scored.sort((a, b) => b.score - a.score): descending and stable
sortByScore(sentences, score) ==
    LET n == Len(sentences)
        rank(i) == Cardinality({j \in 1..n : score[j] > score[i] \/ (score[j] = score[i] /\ j < i)})
    IN  [r \in 1..n |-> sentences[CHOOSE i \in 1..n : rank(i) = r - 1]]

\* q.join(sep)
join(q, sep) == concat([i \in 1..(2 * Len(q) - 1) |-> IF i % 2 = 1 THEN q[(i + 1) \div 2] ELSE sep])

buildOfflineSummary(title, content) ==
    LET sentences == candidateSentences(content)
    IN  IF Len(sentences) = 0
        THEN LET clean == trim(replaceNewlines(content))
             IN  IF Len(clean) > CLEAN_LIMIT
                 THEN cutLastWord(sliceTo(clean, CLEAN_LIMIT)) \o "..."
                 ELSE IF clean # "" THEN clean ELSE title
        ELSE LET titleWords == titleWordsOf(title)
                 score == [i \in 1..Len(sentences) |->
                              sentenceScore(sentences, titleWords, sentences[i])]
                 sorted == sortByScore(sentences, score)
                 top == SubSeq(sorted, 1, IF Len(sorted) < TOP_SENTENCES THEN Len(sorted) ELSE TOP_SENTENCES)
             IN  join(top, ". ") \o "."

\* tag inference that gives up once calls have been recorded: it reads the
\* window of the rate limiter
inferTagsReadingWindow(title, content) ==
    LET text == toLowerCase(title \o " " \o content)
        words == wordsOf(text)
        hits == SelectSeq(tagPatterns, LAMBDA p : testWords(p.alts, text, words))
        found == SubSeq(hits, 1, IF Len(hits) < MAX_INFERRED_TAGS THEN Len(hits) ELSE MAX_INFERRED_TAGS)
    IN  IF Len(found) > 0 /\ Len(callTimestamps) = 0
        THEN mapSeq(found, LAMBDA p : p.tag) ELSE <<"general">>

\* tag inference without the tag "general" for a text no pattern matches
inferTagsWithoutDefault(title, content) ==
    LET text == toLowerCase(title \o " " \o content)
        words == wordsOf(text)
        hits == SelectSeq(tagPatterns, LAMBDA p : testWords(p.alts, text, words))
        found == SubSeq(hits, 1, IF Len(hits) < MAX_INFERRED_TAGS THEN Len(hits) ELSE MAX_INFERRED_TAGS)
    IN  mapSeq(found, LAMBDA p : p.tag)

inferTagsFromContent(title, content) ==
    LET text == toLowerCase(title \o " " \o content)
        words == wordsOf(text)
        hits == SelectSeq(tagPatterns, LAMBDA p : testWords(p.alts, text, words))
        found == SubSeq(hits, 1, IF Len(hits) < MAX_INFERRED_TAGS THEN Len(hits) ELSE MAX_INFERRED_TAGS)
    IN  IF Len(found) > 0 THEN mapSeq(found, LAMBDA p : p.tag) ELSE <<"general">>

inferCategoryFromContent(title, content) ==
    LET text == toLowerCase(title \o " " \o content)
        words == wordsOf(text)
        hits == SelectSeq(categoryPatterns, LAMBDA p : testWords(p.alts, text, words))
    IN  IF Len(hits) > 0 THEN hits[1].category ELSE "Technology"

(***************************************************************************)
(* JSON values and extractJSON                                             *)
(***************************************************************************)
\* a JavaScript value as JSON.parse gives it, tagged with its type; an
\* object is given by the three properties the pipeline reads, each a value
\* or JUndefined when the property is absent
JStr(x) == [t |-> "str", s |-> x]
JNum(x) == [t |-> "num", n |-> x]
JBool(x) == [t |-> "bool", b |-> x]
JArr(x) == [t |-> "arr", a |-> x]
JNull == [t |-> "null"]
JUndefined == [t |-> "undefined"]
JObj(summary, tags, category) ==
    [t |-> "obj", summary |-> summary, tags |-> tags, category |-> category]

\* the truthiness of a value in a condition or under ||
Truthy(v) ==
    CASE v.t = "str" -> v.s # ""
      [] v.t = "num" -> v.n # 0
      [] v.t = "bool" -> v.b
      [] v.t \in {"null", "undefined"} -> FALSE
      [] OTHER -> TRUE

\* the JSON documents of the model and the values JSON.parse gives for them;
\* every other text of the model is not valid JSON
JsonDocs ==
    ("{\"summary\":\"A detailed look at caching strategies for web APIs.\",\"tags\":[\"Web Dev\",\"caching\",\"note\"],\"category\":\"technology\"}"
        :> JObj(JStr("A detailed look at caching strategies for web APIs."),
                JArr(<<JStr("Web Dev"), JStr("caching"), JStr("note")>>),
                JStr("technology")))
    @@ ("{\"summary\":\"Too short\",\"tags\":[\"idea\",\"Note\",\"\",7],\"category\":\"Cooking\"}"
        :> JObj(JStr("Too short"),
                JArr(<<JStr("idea"), JStr("Note"), JStr(""), JNum(7)>>),
                JStr("Cooking")))
    @@ ("{\"summary\":\"This document outlines a weekly plan.\",\"tags\":[\"a\",\"b\",\"c\",\"d\",\"e\",\"f\"],\"category\":\"WORK\"}"
        :> JObj(JStr("This document outlines a weekly plan."),
                JArr(<<JStr("a"), JStr("b"), JStr("c"), JStr("d"), JStr("e"), JStr("f")>>),
                JStr("WORK")))
    @@ ("{\"summary\":12345,\"tags\":\"react\",\"category\":\"\"}"
        :> JObj(JNum(12345), JStr("react"), JStr("")))
    @@ ("{\"summary\":\"Analysis of sleep and diet habits.\",\"tags\":[\"Deep  Sleep\\tHabits\"],\"category\":5}"
        :> JObj(JStr("Analysis of sleep and diet habits."),
                JArr(<<JStr("Deep  Sleep\tHabits")>>),
                JNum(5)))
    @@ ("{\"summary\":\"          \",\"category\":\"Personal\"}"
        :> JObj(JStr("          "), JUndefined, JStr("Personal")))
    @@ ("{\"summary\":null,\"tags\":[],\"category\":null}"
        :> JObj(JNull, JArr(<<>>), JNull))
    @@ ("{}" :> JObj(JUndefined, JUndefined, JUndefined))
    @@ ("null" :> JNull)
    @@ ("42" :> JNum(42))
    @@ ("[\"react\"]" :> JArr(<<JStr("react")>>))
    @@ ("\"Creative\"" :> JStr("Creative"))

\* JSON.parse(text): leading and trailing white space is allowed
JSONParse(text) ==
    LET doc == trim(text)
    IN  IF doc \in DOMAIN JsonDocs
        THEN [threw |-> FALSE, value |-> JsonDocs[doc]]
        ELSE [threw |-> TRUE, value |-> JUndefined]

\* text.indexOf(sub) from position from, 1-based; 0 when there is none
indexFrom(text, sub, from) ==
    LET at == {i \in from..(Len(text) - Len(sub) + 1) : SubSeq(text, i, i + Len(sub) - 1) = sub}
    IN  IF at = {} THEN 0 ELSE Min(at)

\* text.lastIndexOf(sub), 1-based; 0 when there is none
lastIndexOf(text, sub) ==
    LET at == {i \in 1..(Len(text) - Len(sub) + 1) : SubSeq(text, i, i + Len(sub) - 1) = sub}
    IN  IF at = {} THEN 0 ELSE Max(at)

\* the markdown code fence: three grave accents. A TLA+ string cannot hold
\* a grave accent, so the texts of the model write it as an apostrophe.
FENCE == "'''"

\* text.match(/FENCE(?:json)?\s*\n?([\s\S]*?)\n?\s*FENCE/): whether it matched
\* and group 1 up to the white space around it (the caller trims group 1)
fenceMatch(text) ==
    LET open == indexFrom(text, FENCE, 1)
        afterTag == IF open + 6 <= Len(text) /\ SubSeq(text, open + 3, open + 6) = "json"
                    THEN open + 7 ELSE open + 3
        close == IF open = 0 THEN 0 ELSE indexFrom(text, FENCE, afterTag)
    IN  IF open = 0 \/ close = 0
        THEN [matched |-> FALSE, inner |-> ""]
        ELSE [matched |-> TRUE, inner |-> SubSeq(text, afterTag, close - 1)]

\* extractJSON that looks for the braces before it looks for the fence
extractJSONBracesFirst(text) ==
    LET direct == JSONParse(text)
        fence == fenceMatch(text)
        fenced == IF fence.matched THEN JSONParse(trim(fence.inner))
                  ELSE [threw |-> TRUE, value |-> JUndefined]
        braceStart == indexFrom(text, "{", 1)
        braceEnd == lastIndexOf(text, "}")
        braced == IF braceStart # 0 /\ braceEnd > braceStart
                  THEN JSONParse(SubSeq(text, braceStart, braceEnd))
                  ELSE [threw |-> TRUE, value |-> JUndefined]
    IN  IF ~direct.threw THEN [threw |-> FALSE, error |-> NoError, value |-> direct.value]
        ELSE IF ~braced.threw THEN [threw |-> FALSE, error |-> NoError, value |-> braced.value]
        ELSE IF ~fenced.threw THEN [threw |-> FALSE, error |-> NoError, value |-> fenced.value]
        ELSE [threw |-> TRUE,
              error |-> Thrown("Error", "Could not extract JSON from: " \o sliceTo(text, 200), 0),
              value |-> JUndefined]

extractJSON(text) ==
    LET direct == JSONParse(text)
        fence == fenceMatch(text)
        fenced == IF fence.matched THEN JSONParse(trim(fence.inner))
                  ELSE [threw |-> TRUE, value |-> JUndefined]
        braceStart == indexFrom(text, "{", 1)
        braceEnd == lastIndexOf(text, "}")
        braced == IF braceStart # 0 /\ braceEnd > braceStart
                  THEN JSONParse(SubSeq(text, braceStart, braceEnd))
                  ELSE [threw |-> TRUE, value |-> JUndefined]
    IN  IF ~direct.threw THEN [threw |-> FALSE, error |-> NoError, value |-> direct.value]
        ELSE IF ~fenced.threw THEN [threw |-> FALSE, error |-> NoError, value |-> fenced.value]
        ELSE IF ~braced.threw THEN [threw |-> FALSE, error |-> NoError, value |-> braced.value]
        ELSE [threw |-> TRUE,
              error |-> Thrown("Error", "Could not extract JSON from: " \o sliceTo(text, 200), 0),
              value |-> JUndefined]

(***************************************************************************)
(* generateAIMetadata                                                      *)
(***************************************************************************)
\* types.ts: DEFAULT_TAG_CATEGORIES (the colour of a category is left out)
DEFAULT_TAG_CATEGORIES == <<
    [name |-> "Technology",
     tags |-> <<"ai", "web", "api", "code", "devops", "database", "frontend", "backend", "mobile", "cloud">>],
    [name |-> "Business",
     tags |-> <<"strategy", "marketing", "finance", "startup", "product", "growth", "analytics">>],
    [name |-> "Personal",
     tags |-> <<"health", "fitness", "mindset", "habit", "journal", "reflection", "goal">>],
    [name |-> "Creative",
     tags |-> <<"design", "writing", "art", "music", "photography", "video", "branding">>],
    [name |-> "Learning",
     tags |-> <<"tutorial", "course", "book", "research", "concept", "framework", "theory">>],
    [name |-> "Work",
     tags |-> <<"project", "meeting", "task", "deadline", "collaboration", "process", "tool">>]
>>

ALL_CATEGORIES == mapSeq(DEFAULT_TAG_CATEGORIES, LAMBDA c : c.name)

GENERIC_TAGS == {"idea", "content", "note", "learning", "information", "untagged"}

\* what the pipeline hands back: the three fields of AIMetadata. The summary
\* is a tagged value, because the code can return the model's summary
\* without its being a string.
Metadata(summary, tags, category) == [summary |-> summary, tags |-> tags, category |-> category]

NoMetadata == Metadata(JUndefined, <<>>, "")

\* parsed.summary, parsed.tags, parsed.category: undefined unless parsed is
\* an object that has the property
propertyOf(parsed, name) ==
    IF parsed.t # "obj" THEN JUndefined
    ELSE CASE name = "summary" -> parsed.summary
           [] name = "tags" -> parsed.tags
           [] name = "category" -> parsed.category

\* the length test with <= in place of <
summaryTooShortInclusive(summary) ==
    \/ summary.t = "str" /\ Len(summary.s) <= MIN_SUMMARY_LENGTH
    \/ summary.t = "arr" /\ Len(summary.a) <= MIN_SUMMARY_LENGTH

\* summary.length < 10: false when summary has no length
summaryTooShort(summary) ==
    \/ summary.t = "str" /\ Len(summary.s) < MIN_SUMMARY_LENGTH
    \/ summary.t = "arr" /\ Len(summary.a) < MIN_SUMMARY_LENGTH

validateSummary(raw, title, content) ==
    LET summary == IF Truthy(raw) THEN raw ELSE JStr("")
    IN  IF summaryTooShort(summary) THEN JStr(buildOfflineSummary(title, content)) ELSE summary

\* the tag validation without the replacement of white space by hyphens
validateTagsUnhyphenated(raw) ==
    IF raw.t # "arr" THEN <<>>
    ELSE LET strings == SelectSeq(raw.a, LAMBDA v : v.t = "str" /\ Len(v.s) > 0)
             mapped == mapSeq(strings, LAMBDA v : toLowerCase(v.s))
             kept == SelectSeq(mapped, LAMBDA x : x \notin GENERIC_TAGS)
         IN  SubSeq(kept, 1, IF Len(kept) < MAX_TAGS THEN Len(kept) ELSE MAX_TAGS)

\* the tag validation that strips the generic tags before it lower-cases
validateTagsStrippingFirst(raw) ==
    IF raw.t # "arr" THEN <<>>
    ELSE LET strings == SelectSeq(raw.a, LAMBDA v : v.t = "str" /\ Len(v.s) > 0)
             kept == SelectSeq(strings, LAMBDA v : v.s \notin GENERIC_TAGS)
             mapped == mapSeq(kept, LAMBDA v : hyphenate(toLowerCase(v.s)))
         IN  SubSeq(mapped, 1, IF Len(mapped) < MAX_TAGS THEN Len(mapped) ELSE MAX_TAGS)

validateTags(raw) ==
    IF raw.t # "arr" THEN <<>>
    ELSE LET strings == SelectSeq(raw.a, LAMBDA v : v.t = "str" /\ Len(v.s) > 0)
             mapped == mapSeq(strings, LAMBDA v : hyphenate(toLowerCase(v.s)))
             kept == SelectSeq(mapped, LAMBDA x : x \notin GENERIC_TAGS)
         IN  SubSeq(kept, 1, IF Len(kept) < MAX_TAGS THEN Len(kept) ELSE MAX_TAGS)

\* ALL_CATEGORIES.find((c) => c.toLowerCase() === raw.toLowerCase()), for a
\* string raw: the sequence of the matches, in order
categoryMatches(raw) ==
    SelectSeq(ALL_CATEGORIES, LAMBDA c : toLowerCase(c) = toLowerCase(raw))

\* the category validation that takes the model's category as it comes
validateCategoryUnchecked(raw, title, content) ==
    IF Truthy(raw) THEN raw.s ELSE inferCategoryFromContent(title, content)

validateCategory(raw, title, content) ==
    LET inferred == inferCategoryFromContent(title, content)
    IN  IF Truthy(raw) /\ Len(categoryMatches(raw.s)) > 0
        THEN categoryMatches(raw.s)[1]
        ELSE inferred

\* the try block after safeGenerate has returned text: it returns the
\* metadata or throws
metadataFromText(title, content, text) ==
    LET extracted == extractJSON(text)
        parsed == extracted.value
        rawCategory == propertyOf(parsed, "category")
        tags == validateTags(propertyOf(parsed, "tags"))
    IN  IF extracted.threw
        THEN [threw |-> TRUE, error |-> extracted.error, value |-> NoMetadata]
        ELSE IF parsed.t = "null"
        THEN [threw |-> TRUE,
              error |-> Thrown("TypeError", "Cannot read properties of null (reading 'summary')", 0),
              value |-> NoMetadata]
        ELSE IF Truthy(rawCategory) /\ rawCategory.t # "str"
        THEN [threw |-> TRUE,
              error |-> Thrown("TypeError", "parsed.category.toLowerCase is not a function", 0),
              value |-> NoMetadata]
        ELSE [threw |-> FALSE, error |-> NoError,
              value |-> Metadata(validateSummary(propertyOf(parsed, "summary"), title, content),
                                 IF Len(tags) > 0 THEN tags ELSE inferTagsFromContent(title, content),
                                 validateCategory(rawCategory, title, content))]

\* the offline fallback whose summary is the title
offlineMetadataTitleOnly(title, content) ==
    Metadata(JStr(title), inferTagsFromContent(title, content), inferCategoryFromContent(title, content))

\* the catch block: the offline fallback
offlineMetadata(title, content) ==
    Metadata(JStr(buildOfflineSummary(title, content)),
             inferTagsFromContent(title, content),
             inferCategoryFromContent(title, content))

\* what an operation gives its caller
Completion(status, error, caught, metadata, answer, sourceIndices, embedding) ==
    [status |-> status, error |-> error, caught |-> caught, metadata |-> metadata,
     answer |-> answer, sourceIndices |-> sourceIndices, sources |-> <<>>,
     embedding |-> embedding]

NoCompletion == Completion("none", NoError, NoError, NoMetadata, "", <<>>, "none")

\* generateAIMetadata whose catch block rethrows the typed errors
generateAIMetadataRethrowing(title, content, attempt) ==
    IF attempt.threw /\ attempt.error.name \in {"AIConfigError", "AIQuotaError"}
    THEN Completion("threw", attempt.error, NoError, NoMetadata, "", <<>>, "none")
    ELSE IF attempt.threw
    THEN Completion("returned", NoError, attempt.error, offlineMetadata(title, content), "", <<>>, "none")
    ELSE Completion("returned", NoError, NoError, attempt.value, "", <<>>, "none")

\* generateAIMetadata as its caller sees it, given what the try block did
generateAIMetadata(title, content, attempt) ==
    IF attempt.threw
    THEN Completion("returned", NoError, attempt.error, offlineMetadata(title, content), "", <<>>, "none")
    ELSE Completion("returned", NoError, NoError, attempt.value, "", <<>>, "none")

(***************************************************************************)
(* queryBrainAI                                                            *)
(***************************************************************************)
DigitValue(c) == (CHOOSE i \in 1..Len(DIGITS) : CharAt(DIGITS, i) = c) - 1

\* parseInt of a string of decimal digits
RECURSIVE parseInt(_)
parseInt(digits) ==
    IF Len(digits) = 0 THEN 0
    ELSE 10 * parseInt(SubSeq(digits, 1, Len(digits) - 1)) + DigitValue(CharAt(digits, Len(digits)))

\* the end of the match of /\[(\d+)\]/ that starts at position i, 0 if none
citationEnd(text, i) ==
    LET stop == Min({j \in (i + 1)..(Len(text) + 1) : j > Len(text) \/ ~IsDigit(CharAt(text, j))})
    IN  IF CharAt(text, i) = "[" /\ stop > i + 1 /\ stop <= Len(text) /\ CharAt(text, stop) = "]"
        THEN stop ELSE 0

\* text.match(/\[(\d+)\]/g).map((m) => parseInt(m.replace(/[\[\]]/g, "")) - 1)
citedIndices(text) ==
    LET at == sortedSeq({i \in 1..Len(text) : citationEnd(text, i) # 0})
    IN  [k \in 1..Len(at) |-> parseInt(SubSeq(text, at[k] + 1, citationEnd(text, at[k]) - 1)) - 1]

\* [...new Set(q)]: the first occurrence of each element, in order
dedupe(q) == SelectSeq([k \in 1..Len(q) |-> [v |-> q[k], first |-> \A j \in 1..(k - 1) : q[j] # q[k]]],
                       LAMBDA e : e.first)

uniqueSeq(q) == mapSeq(dedupe(q), LAMBDA e : e.v)

\* the source indices without the Set that collapses repeated citations
sourceIndicesRepeating(text, items) ==
    SelectSeq(citedIndices(text), LAMBDA i : i >= 0 /\ i < Len(items))

sourceIndicesOf(text, items) ==
    SelectSeq(uniqueSeq(citedIndices(text)), LAMBDA i : i >= 0 /\ i < Len(items))

\* the line of the context for item number i (from 0):
\* [i + 1] "title" (type): body.slice(0, 200)
excerptOf(item, i) ==
    LET body == IF item.content # "" THEN item.content ELSE item.ai_summary
    IN  "[" \o ToString(i + 1) \o "] \"" \o item.title \o "\" (" \o item.type \o "): "
            \o sliceTo(body, MAX_BODY_LENGTH)

\* the context with no bound on the number of items
contextOfAllItems(items) ==
    join([k \in 1..Len(items) |-> excerptOf(items[k], k - 1)], "\n")

\* items.slice(0, 25).map(...).join("\n"): the context of the prompt
contextOf(items) ==
    LET first == SubSeq(items, 1, IF Len(items) < MAX_CONTEXT_ITEMS THEN Len(items) ELSE MAX_CONTEXT_ITEMS)
    IN  join([k \in 1..Len(first) |-> excerptOf(first[k], k - 1)], "\n")

\* queryBrainAI as its caller sees it, given what safeGenerate did
queryBrainAI(items, generated) ==
    IF generated.threw
    THEN Completion("threw", generated.error, NoError, NoMetadata, "", <<>>, "none")
    ELSE Completion("returned", NoError, NoError, NoMetadata,
                    generated.text, sourceIndicesOf(generated.text, items), "none")

(***************************************************************************)
(* generateEmbedding                                                       *)
(***************************************************************************)
\* generateEmbedding as its caller sees it: the embedding values, or null
\* when the key is missing or the upstream call failed
generateEmbedding(apiKey, outcome) ==
    IF KeyMissing(apiKey) \/ outcome.kind = "throw"
    THEN Completion("returned", NoError, outcome.error, NoMetadata, "", <<>>, "null")
    ELSE Completion("returned", NoError, NoError, NoMetadata, "", <<>>, "values")

(***************************************************************************)
(* queryBrain (actions.ts): the caller of queryBrainAI                     *)
(***************************************************************************)
\* what queryBrain read from the database: the user's rows, or no data
Fetched(rows) == [present |-> TRUE, rows |-> rows]

NotFetched == [present |-> FALSE, rows |-> <<>>]

SIGN_IN_ANSWER == "Please sign in to query your brain."

BRAIN_EMPTY_ANSWER == "Your brain is empty! Start by capturing some notes, links, or insights."

\* the source text begins with a warning sign and has a dash after
\* "exceeded"; both are left out here
QUOTA_ANSWER ==
    "AI quota exceeded - the free Gemini API tier has limited requests per minute. Please wait about a minute and try again."

TROUBLE_ANSWER ==
    "I had trouble processing that. The AI service may be temporarily unavailable. Please try again in a moment."

\* { answer, sources } as queryBrain returns it; caught is the error its
\* catch block handled
BrainAnswer(answer, sources, caught) ==
    [Completion("returned", NoError, caught, NoMetadata, answer, <<>>, "none")
        EXCEPT !.sources = sources]

\* the emptiness test without the test of the length
brainIsEmptyOnlyAbsent(fetched) == ~fetched.present

\* !items || items.length === 0
brainIsEmpty(fetched) == ~fetched.present \/ Len(fetched.rows) = 0

\* queryBrain whose catch block shows the message of an error it does not
\* know
queryBrainLeakingMessage(items, completion) ==
    LET sources == mapSeq(completion.sourceIndices, LAMBDA i : items[i + 1])
        firstTwo == SubSeq(items, 1, IF Len(items) < 2 THEN Len(items) ELSE 2)
        err == completion.error
    IN  IF completion.status = "returned"
        THEN BrainAnswer(completion.answer, IF Len(sources) > 0 THEN sources ELSE firstTwo, NoError)
        ELSE IF err.name = "AIConfigError" THEN BrainAnswer(err.message, <<>>, err)
        ELSE IF err.name = "AIQuotaError" THEN BrainAnswer(QUOTA_ANSWER, <<>>, err)
        ELSE BrainAnswer("I had trouble processing that. Error: " \o sliceTo(err.message, 100), <<>>, err)

\* queryBrain from the completion of queryBrainAI to its return
queryBrain(items, completion) ==
    LET sources == mapSeq(completion.sourceIndices, LAMBDA i : items[i + 1])
        firstTwo == SubSeq(items, 1, IF Len(items) < 2 THEN Len(items) ELSE 2)
        err == completion.error
    IN  IF completion.status = "returned"
        THEN BrainAnswer(completion.answer, IF Len(sources) > 0 THEN sources ELSE firstTwo, NoError)
        ELSE IF err.name = "AIConfigError" THEN BrainAnswer(err.message, <<>>, err)
        ELSE IF err.name = "AIQuotaError" THEN BrainAnswer(QUOTA_ANSWER, <<>>, err)
        ELSE BrainAnswer(TROUBLE_ANSWER, <<>>, err)

(***************************************************************************)
(* The public query route (POST): the other caller of queryBrainAI         *)
(***************************************************************************)
\* what the route answers: the status of the response and, of its body, the
\* answer, the sources and the error
HttpResponse(code, answer, sources, error) ==
    BrainAnswer(answer, sources, NoError) @@ [code |-> code, bodyError |-> error]

\* the fields of an item the route gives for a source
sourceSummary(item) ==
    [id |-> item.id, title |-> item.title, type |-> item.type, ai_summary |-> item.ai_summary]

\* POST from the completion of queryBrainAI to its response
publicQuery(items, completion) ==
    LET inRange == SelectSeq(completion.sourceIndices, LAMBDA i : i >= 0 /\ i < Len(items))
        err == completion.error
    IN  IF completion.status = "returned"
        THEN HttpResponse(200, completion.answer,
                          mapSeq(inRange, LAMBDA i : sourceSummary(items[i + 1])), "")
        ELSE IF err.name = "AIConfigError" THEN HttpResponse(500, "", <<>>, err.message)
        ELSE IF err.name = "AIQuotaError"
        THEN HttpResponse(200, "AI quota exceeded. Please wait a minute and try again.", <<>>, "")
        ELSE HttpResponse(500, "", <<>>, "Failed to process query")

(***************************************************************************)
(* Operations in flight                                                    *)
(***************************************************************************)
\* an operation slot: where the operation is (idle, awaiting the upstream
\* response, done with its caller not yet resumed), what it was called
\* with, what checkRateLimit did for it (admission, admissionError), what
\* the upstream did, and what the operation gave its caller; a query that
\* was admitted also has the context it sent to the upstream
Operation(pc, kind, title, content, items, apiKey, admission, admissionError, upstream, result) ==
    [pc |-> pc, kind |-> kind, title |-> title, content |-> content, items |-> items,
     apiKey |-> apiKey, admission |-> admission, admissionError |-> admissionError,
     upstream |-> upstream, result |-> result]

IdleOperation == Operation("idle", "none", "", "", <<>>, "", "none", NoError, NoOutcome, NoCompletion)

OpIds == 1..NumOps

\* the admitted calls the history keeps: one more than the ceiling
HistoryLen == MAX_CALLS_PER_MINUTE + 1

remember(history, t) ==
    LET all == Append(history, t)
    IN  IF Len(all) > HistoryLen THEN Tail(all) ELSE all

\* the cooldown rejection remembered, the first since the deadline was set:
\* when it was made and the wait it told; a rejection by the window tells no
\* wait
hinted(history, error, t) ==
    IF error.waitSec > 0 /\ history = {}
    THEN {[at |-> t, waitSec |-> error.waitSec]}
    ELSE history

Init ==
    /\ now = 0
    /\ ticks = 0
    /\ callTimestamps = <<>>
    /\ quotaExhaustedUntil = 0
    /\ recentAdmits = <<>>
    /\ hints = {}
    /\ ops = [o \in OpIds |-> IdleOperation]

\* time passes: Date.now() grows by d milliseconds
Tick(d) ==
    /\ ticks < MaxTicks
    /\ now' = now + d
    /\ ticks' = ticks + 1
    /\ UNCHANGED <<callTimestamps, quotaExhaustedUntil, recentAdmits, hints, ops>>

\* generateAIMetadata up to its await: getModel, then safeGenerate's
\* checkRateLimit and the request to the upstream
CallGenerateAIMetadata(o, title, content, apiKey) ==
    LET model == getModel(apiKey)
        limit == checkRateLimit(callTimestamps, quotaExhaustedUntil, now)
        call(pc, admission, error, result) ==
            Operation(pc, "meta", title, content, <<>>, apiKey, admission, error, NoOutcome, result)
    IN  /\ ops[o].pc = "idle"
        /\ IF model.threw
           THEN /\ ops' = [ops EXCEPT ![o] =
                        call("done", "none", NoError, generateAIMetadata(title, content, model))]
                /\ UNCHANGED <<callTimestamps, recentAdmits, hints>>
           ELSE IF limit.threw
           THEN /\ ops' = [ops EXCEPT ![o] =
                        call("done", "rejected", limit.error, generateAIMetadata(title, content, limit))]
                /\ callTimestamps' = limit.callTimestamps
                /\ hints' = hinted(hints, limit.error, now)
                /\ UNCHANGED recentAdmits
           ELSE /\ ops' = [ops EXCEPT ![o] = call("awaiting", "admitted", NoError, NoCompletion)]
                /\ callTimestamps' = limit.callTimestamps
                /\ recentAdmits' = remember(recentAdmits, now)
                /\ UNCHANGED hints
        /\ UNCHANGED <<now, ticks, quotaExhaustedUntil>>

\* generateAIMetadata from the upstream's response to its return
ResumeGenerateAIMetadata(o, outcome) ==
    LET op == ops[o]
        generated == safeGenerateResume(outcome)
        attempt == IF generated.threw THEN generated
                   ELSE metadataFromText(op.title, op.content, generated.text)
    IN  /\ op.pc = "awaiting"
        /\ op.kind = "meta"
        /\ ops' = [ops EXCEPT ![o].pc = "done", ![o].upstream = outcome,
                              ![o].result = generateAIMetadata(op.title, op.content, attempt)]
        /\ quotaExhaustedUntil' =
               IF generated.exhausted THEN markQuotaExhausted(now) ELSE quotaExhaustedUntil
        /\ hints' = IF generated.exhausted THEN {} ELSE hints
        /\ UNCHANGED <<now, ticks, callTimestamps, recentAdmits>>

\* queryBrainAI up to its await
CallQueryBrainAI(o, question, items, apiKey) ==
    LET model == getModel(apiKey)
        limit == checkRateLimit(callTimestamps, quotaExhaustedUntil, now)
        call(pc, admission, error, result) ==
            Operation(pc, "query", question, "", items, apiKey, admission, error, NoOutcome, result)
        thrown(e) == queryBrainAI(items, [threw |-> TRUE, error |-> e, text |-> ""])
    IN  /\ ops[o].pc = "idle"
        /\ IF model.threw
           THEN /\ ops' = [ops EXCEPT ![o] = call("done", "none", NoError, thrown(model.error))]
                /\ UNCHANGED <<callTimestamps, recentAdmits, hints>>
           ELSE IF limit.threw
           THEN /\ ops' = [ops EXCEPT ![o] = call("done", "rejected", limit.error, thrown(limit.error))]
                /\ callTimestamps' = limit.callTimestamps
                /\ hints' = hinted(hints, limit.error, now)
                /\ UNCHANGED recentAdmits
           ELSE /\ ops' = [ops EXCEPT ![o] = call("awaiting", "admitted", NoError, NoCompletion)
                                                 @@ [context |-> contextOf(items)]]
                /\ callTimestamps' = limit.callTimestamps
                /\ recentAdmits' = remember(recentAdmits, now)
                /\ UNCHANGED hints
        /\ UNCHANGED <<now, ticks, quotaExhaustedUntil>>

\* queryBrainAI from the upstream's response to its return or throw
ResumeQueryBrainAI(o, outcome) ==
    LET op == ops[o]
        generated == safeGenerateResume(outcome)
    IN  /\ op.pc = "awaiting"
        /\ op.kind = "query"
        /\ ops' = [ops EXCEPT ![o].pc = "done", ![o].upstream = outcome,
                              ![o].result = queryBrainAI(op.items, generated)]
        /\ quotaExhaustedUntil' =
               IF generated.exhausted THEN markQuotaExhausted(now) ELSE quotaExhaustedUntil
        /\ hints' = IF generated.exhausted THEN {} ELSE hints
        /\ UNCHANGED <<now, ticks, callTimestamps, recentAdmits>>

\* generateEmbedding up to its await: the key test, then the request to
\* the upstream (embedContent)
CallGenerateEmbedding(o, text, apiKey) ==
    LET call(pc, result) ==
            Operation(pc, "embed", "", text, <<>>, apiKey, "none", NoError, NoOutcome, result)
    IN  /\ ops[o].pc = "idle"
        /\ ops' = [ops EXCEPT ![o] =
                      IF KeyMissing(apiKey)
                      THEN call("done", generateEmbedding(apiKey, NoOutcome))
                      ELSE call("awaiting", NoCompletion)]
        /\ UNCHANGED <<now, ticks, callTimestamps, quotaExhaustedUntil, recentAdmits, hints>>

\* generateEmbedding from the upstream's response to its return
ResumeGenerateEmbedding(o, outcome) ==
    LET op == ops[o]
    IN  /\ op.pc = "awaiting"
        /\ op.kind = "embed"
        /\ ops' = [ops EXCEPT ![o].pc = "done", ![o].upstream = outcome,
                              ![o].result = generateEmbedding(op.apiKey, outcome)]
        /\ UNCHANGED <<now, ticks, callTimestamps, quotaExhaustedUntil, recentAdmits, hints>>

\* queryBrain up to the await in queryBrainAI, or to its return when it
\* does not get that far
CallQueryBrain(o, signedIn, question, fetched, apiKey) ==
    LET items == fetched.rows
        model == getModel(apiKey)
        limit == checkRateLimit(callTimestamps, quotaExhaustedUntil, now)
        call(pc, admission, error, result) ==
            Operation(pc, "brain", question, "", items, apiKey, admission, error, NoOutcome, result)
                @@ [signedIn |-> signedIn]
        thrown(e) == queryBrain(items, queryBrainAI(items, [threw |-> TRUE, error |-> e, text |-> ""]))
    IN  /\ ops[o].pc = "idle"
        /\ IF ~signedIn
           THEN /\ ops' = [ops EXCEPT ![o] =
                        call("done", "none", NoError, BrainAnswer(SIGN_IN_ANSWER, <<>>, NoError))]
                /\ UNCHANGED <<callTimestamps, recentAdmits, hints>>
           ELSE IF brainIsEmpty(fetched)
           THEN /\ ops' = [ops EXCEPT ![o] =
                        call("done", "none", NoError, BrainAnswer(BRAIN_EMPTY_ANSWER, <<>>, NoError))]
                /\ UNCHANGED <<callTimestamps, recentAdmits, hints>>
           ELSE IF model.threw
           THEN /\ ops' = [ops EXCEPT ![o] = call("done", "none", NoError, thrown(model.error))]
                /\ UNCHANGED <<callTimestamps, recentAdmits, hints>>
           ELSE IF limit.threw
           THEN /\ ops' = [ops EXCEPT ![o] = call("done", "rejected", limit.error, thrown(limit.error))]
                /\ callTimestamps' = limit.callTimestamps
                /\ hints' = hinted(hints, limit.error, now)
                /\ UNCHANGED recentAdmits
           ELSE /\ ops' = [ops EXCEPT ![o] = call("awaiting", "admitted", NoError, NoCompletion)
                                                 @@ [context |-> contextOf(items)]]
                /\ callTimestamps' = limit.callTimestamps
                /\ recentAdmits' = remember(recentAdmits, now)
                /\ UNCHANGED hints
        /\ UNCHANGED <<now, ticks, quotaExhaustedUntil>>

\* queryBrain from the upstream's response to its return
ResumeQueryBrain(o, outcome) ==
    LET op == ops[o]
        generated == safeGenerateResume(outcome)
    IN  /\ op.pc = "awaiting"
        /\ op.kind = "brain"
        /\ ops' = [ops EXCEPT ![o].pc = "done", ![o].upstream = outcome,
                              ![o].result = queryBrain(op.items, queryBrainAI(op.items, generated))]
        /\ quotaExhaustedUntil' =
               IF generated.exhausted THEN markQuotaExhausted(now) ELSE quotaExhaustedUntil
        /\ hints' = IF generated.exhausted THEN {} ELSE hints
        /\ UNCHANGED <<now, ticks, callTimestamps, recentAdmits>>

\* POST up to the await in queryBrainAI, or to its response when it does
\* not get that far; the request is malformed (request.json() throws),
\* incomplete (no question or no user_id) or complete
CallPublicQuery(o, request, question, fetched, apiKey) ==
    LET items == fetched.rows
        model == getModel(apiKey)
        limit == checkRateLimit(callTimestamps, quotaExhaustedUntil, now)
        call(pc, admission, error, result) ==
            Operation(pc, "post", question, "", items, apiKey, admission, error, NoOutcome, result)
        thrown(e) == publicQuery(items, queryBrainAI(items, [threw |-> TRUE, error |-> e, text |-> ""]))
        answered(response) ==
            /\ ops' = [ops EXCEPT ![o] = call("done", "none", NoError, response)]
            /\ UNCHANGED <<callTimestamps, recentAdmits, hints>>
    IN  /\ ops[o].pc = "idle"
        /\ IF request = "malformed"
           THEN answered(HttpResponse(500, "", <<>>, "Failed to process query"))
           ELSE IF request = "incomplete"
           THEN answered(HttpResponse(400, "", <<>>, "Both 'question' and 'user_id' are required"))
           ELSE IF brainIsEmpty(fetched)
           THEN answered(HttpResponse(200, "No items found in this brain.", <<>>, ""))
           ELSE IF model.threw
           THEN answered(thrown(model.error))
           ELSE IF limit.threw
           THEN /\ ops' = [ops EXCEPT ![o] = call("done", "rejected", limit.error, thrown(limit.error))]
                /\ callTimestamps' = limit.callTimestamps
                /\ hints' = hinted(hints, limit.error, now)
                /\ UNCHANGED recentAdmits
           ELSE /\ ops' = [ops EXCEPT ![o] = call("awaiting", "admitted", NoError, NoCompletion)
                                                 @@ [context |-> contextOf(items)]]
                /\ callTimestamps' = limit.callTimestamps
                /\ recentAdmits' = remember(recentAdmits, now)
                /\ UNCHANGED hints
        /\ UNCHANGED <<now, ticks, quotaExhaustedUntil>>

\* POST from the upstream's response to its own response
ResumePublicQuery(o, outcome) ==
    LET op == ops[o]
        generated == safeGenerateResume(outcome)
    IN  /\ op.pc = "awaiting"
        /\ op.kind = "post"
        /\ ops' = [ops EXCEPT ![o].pc = "done", ![o].upstream = outcome,
                              ![o].result = publicQuery(op.items, queryBrainAI(op.items, generated))]
        /\ quotaExhaustedUntil' =
               IF generated.exhausted THEN markQuotaExhausted(now) ELSE quotaExhaustedUntil
        /\ hints' = IF generated.exhausted THEN {} ELSE hints
        /\ UNCHANGED <<now, ticks, callTimestamps, recentAdmits>>

\* the caller takes the result: the slot is free again
Return(o) ==
    /\ ops[o].pc = "done"
    /\ ops' = [ops EXCEPT ![o] = IdleOperation]
    /\ UNCHANGED <<now, ticks, callTimestamps, quotaExhaustedUntil, recentAdmits, hints>>

(***************************************************************************)
(* Inputs                                                                  *)
(***************************************************************************)
VALID_KEY == "AIza-valid-key"

ApiKeys == {"", PLACEHOLDER_KEY, VALID_KEY}

ReactTitle == "Intro to React Hooks"

ReactContent ==
    "React hooks let you use state in functional components. useEffect handles side effects. This pattern replaced class lifecycle methods."

RepeatingContent ==
    "The plan needs a review every single week! Nobody owns the deployment pipeline right now.\nHowever the budget is the key to the whole company. The plan needs a review every single week?"

UnbrokenContent ==
    "meeting notes from the quarterly planning session where the whole team talked about revenue targets and the new design system and who should own the deployment pipeline for the mobile application in the next half of the year and beyond"

PlanTitle == "Weekly Budget Plan for the React project"

Titles == {"", "   ", ReactTitle, PlanTitle}

Contents == {"", " \n ", "my sleep diet", ReactContent, RepeatingContent, UnbrokenContent}

QuotaErrors ==
    {Thrown("Error", "[GoogleGenerativeAI Error]: [429 Too Many Requests] Resource has been exhausted", 0),
     Thrown("Error", "[404 Not Found] quota project not found", 0),
     Thrown("Error", "Quota exceeded for metric generate_content_requests", 0),
     Thrown("string", "429", 0)}

NotFoundErrors ==
    {Thrown("Error", "[404 Not Found] models/gemini-2.0-flash is not found for API version v1beta", 0),
     Thrown("Error", "model not found", 0)}

OtherErrors ==
    {Thrown("Error", "fetch failed", 0),
     Thrown("TypeError", "Cannot read properties of undefined (reading 'text')", 0),
     Thrown("string", "socket hang up", 0)}

UpstreamErrors == QuotaErrors \cup NotFoundErrors \cup OtherErrors

Fenced(doc) == FENCE \o "json\n" \o doc \o "\n" \o FENCE

Wrapped(doc) == "Here is the result: " \o doc \o " Thanks"

\* a fenced null followed by an object in the prose
FencedThenBraces == FENCE \o "\nnull\n" \o FENCE \o " or {}"

WrappedDocs == {"{}", "null", "{\"summary\":12345,\"tags\":\"react\",\"category\":\"\"}"}

MetadataTexts ==
    DOMAIN JsonDocs
    \cup {Fenced(doc) : doc \in WrappedDocs}
    \cup {Wrapped(doc) : doc \in WrappedDocs}
    \cup {"  {}  ", FENCE \o "\n42" \o FENCE, FENCE \o " {} ", "not json at all", "{not json}", "   ", ""}
    \cup {FencedThenBraces, UnbrokenContent}

MetadataOutcomes ==
    {TextOutcome(text) : text \in MetadataTexts} \cup {ThrowOutcome(e) : e \in UpstreamErrors}

\* a saved item: the fields of BrainItem that queryBrainAI reads, and its id
BrainItem(k) ==
    [id |-> "item-" \o ToString(k), title |-> "Note " \o ToString(k), type |-> "note",
     content |-> IF k % 2 = 1 THEN "Content of note " \o ToString(k) ELSE "",
     ai_summary |-> IF k % 3 = 0 THEN "" ELSE "Summary of note " \o ToString(k)]

ItemsOfLength(n) == [k \in 1..n |-> BrainItem(k)]

ItemLists == {ItemsOfLength(1), ItemsOfLength(3), ItemsOfLength(MAX_CONTEXT_ITEMS + 1)}

Question == "What did I write about hooks?"

AnswerTexts ==
    {"See [1] and [3] and [1] again",
     "Entry [9] covers it",
     "Nothing in your notes is relevant.",
     "[[2]][01][3][2]",
     "As [3] and [2] say, then [0], [], [x], [1 and [26] [1]",
     "  [2] first.\n",
     "   ",
     ""}

QueryOutcomes ==
    {TextOutcome(text) : text \in AnswerTexts} \cup {ThrowOutcome(e) : e \in UpstreamErrors}

EmbeddingOutcomes ==
    {TextOutcome("embedding")} \cup {ThrowOutcome(e) : e \in UpstreamErrors}

\* the requests the public route may get
Requests == {"malformed", "incomplete", "complete"}

\* what queryBrain may have read from the database
Fetches == {NotFetched, Fetched(<<>>), Fetched(ItemsOfLength(1)), Fetched(ItemsOfLength(3))}

\* the steps of the clock, in milliseconds: the shortest one, and the width
\* of the window (so that a timestamp can be exactly, or just over, 60 s old)
Steps == {1, WINDOW_MS}

\* what the system specifications draw from
SystemKeys == {"", VALID_KEY}

SystemTitle == ""

SystemContent == "my sleep diet"

SystemMetadataOutcomes ==
    {TextOutcome("{}"),
     ThrowOutcome(Thrown("Error", "Quota exceeded for metric generate_content_requests", 0))}

SystemQueryOutcomes ==
    {TextOutcome("See [1] and [3] and [1] again"),
     ThrowOutcome(Thrown("Error", "[404 Not Found] quota project not found", 0)),
     ThrowOutcome(Thrown("Error", "model not found", 0))}

SystemEmbeddingOutcomes ==
    {TextOutcome("embedding"), ThrowOutcome(Thrown("Error", "fetch failed", 0))}

(***************************************************************************)
(* Specifications                                                          *)
(***************************************************************************)
\* the limiter and the clock: operations that have their key, one after
\* another, time passing between and during them
Next ==
    \/ \E d \in Steps : Tick(d)
    \/ CallGenerateAIMetadata(1, SystemTitle, SystemContent, VALID_KEY)
    \/ \E out \in SystemMetadataOutcomes : ResumeGenerateAIMetadata(1, out)
    \/ CallQueryBrainAI(1, Question, ItemsOfLength(3), VALID_KEY)
    \/ \E out \in SystemQueryOutcomes : ResumeQueryBrainAI(1, out)
    \/ CallGenerateEmbedding(1, SystemContent, VALID_KEY)
    \/ \E out \in SystemEmbeddingOutcomes : ResumeGenerateEmbedding(1, out)
    \/ Return(1)

Spec == Init /\ [][Next]_vars

\* operations in flight together: each may start while the others wait for
\* the upstream, and the responses arrive in any order
ConcurrentNext ==
    \/ \E o \in OpIds, k \in SystemKeys : CallGenerateAIMetadata(o, SystemTitle, SystemContent, k)
    \/ \E o \in OpIds, out \in SystemMetadataOutcomes : ResumeGenerateAIMetadata(o, out)
    \/ \E o \in OpIds, k \in SystemKeys : CallQueryBrainAI(o, Question, ItemsOfLength(3), k)
    \/ \E o \in OpIds, out \in SystemQueryOutcomes : ResumeQueryBrainAI(o, out)
    \/ \E o \in OpIds, k \in SystemKeys : CallGenerateEmbedding(o, SystemContent, k)
    \/ \E o \in OpIds, out \in SystemEmbeddingOutcomes : ResumeGenerateEmbedding(o, out)
    \/ \E o \in OpIds : Return(o)

ConcurrentSpec == Init /\ [][ConcurrentNext]_vars

\* one operation at a time, over all the inputs and upstream behaviours
MoreData == Len(callTimestamps) < MaxDataCalls

DataNext ==
    \/ \E t \in Titles, c \in Contents, k \in ApiKeys :
           MoreData /\ CallGenerateAIMetadata(1, t, c, k)
    \/ \E out \in MetadataOutcomes : ResumeGenerateAIMetadata(1, out)
    \/ \E items \in ItemLists, k \in ApiKeys :
           MoreData /\ CallQueryBrainAI(1, Question, items, k)
    \/ \E out \in QueryOutcomes : ResumeQueryBrainAI(1, out)
    \/ \E signedIn \in BOOLEAN, fetched \in Fetches, k \in ApiKeys :
           MoreData /\ CallQueryBrain(1, signedIn, Question, fetched, k)
    \/ \E out \in QueryOutcomes : ResumeQueryBrain(1, out)
    \/ \E request \in Requests, fetched \in Fetches, k \in ApiKeys :
           MoreData /\ CallPublicQuery(1, request, Question, fetched, k)
    \/ \E out \in QueryOutcomes : ResumePublicQuery(1, out)
    \/ \E k \in ApiKeys : MoreData /\ CallGenerateEmbedding(1, ReactContent, k)
    \/ \E out \in EmbeddingOutcomes : ResumeGenerateEmbedding(1, out)
    \/ Return(1)

DataSpec == Init /\ [][DataNext]_vars

\* the steps of the clock while a cooldown runs: also one second
HintSteps == Steps \cup {MS_PER_SECOND}

\* the cooldown second by second: a few calls, one after another, and the
\* attempts made while and after the cooldown runs
CooldownNext ==
    \/ \E d \in HintSteps : Tick(d)
    \/ MoreData /\ CallGenerateAIMetadata(1, SystemTitle, SystemContent, VALID_KEY)
    \/ \E out \in SystemMetadataOutcomes : ResumeGenerateAIMetadata(1, out)
    \/ MoreData /\ CallQueryBrainAI(1, Question, ItemsOfLength(3), VALID_KEY)
    \/ \E out \in SystemQueryOutcomes : ResumeQueryBrainAI(1, out)
    \/ Return(1)

CooldownSpec == Init /\ [][CooldownNext]_vars

\* calls made with and without a key, one after another, time passing
\* between and during them
KeyNext ==
    \/ \E d \in Steps : Tick(d)
    \/ \E k \in ApiKeys : MoreData /\ CallGenerateAIMetadata(1, SystemTitle, SystemContent, k)
    \/ \E out \in SystemMetadataOutcomes : ResumeGenerateAIMetadata(1, out)
    \/ \E k \in ApiKeys : MoreData /\ CallQueryBrainAI(1, Question, ItemsOfLength(3), k)
    \/ \E out \in SystemQueryOutcomes : ResumeQueryBrainAI(1, out)
    \/ Return(1)

KeySpec == Init /\ [][KeyNext]_vars

(***************************************************************************)
(* Properties of generateAIMetadata (under DataSpec)                       *)
(***************************************************************************)
\* C1: generateAIMetadata never throws. Whatever its steps did (key missing
\* or placeholder, admission rejected, upstream threw, empty text, text that
\* does not parse, JSON null or fields of the wrong type), the operation
\* completes by returning a metadata record and no error reaches the caller.
C1_NeverThrows ==
    \A o \in OpIds :
        (ops[o].kind = "meta" /\ ops[o].pc = "done") =>
            /\ ops[o].result.status = "returned"
            /\ ops[o].result.error = NoError
            /\ ops[o].result.metadata # NoMetadata

\* the model answered with the JSON document null: reading parsed.summary
\* threw a TypeError, and the operation still returned
C1_Witness ==
    \E o \in OpIds :
        /\ ops[o].kind = "meta" /\ ops[o].pc = "done"
        /\ ops[o].upstream = TextOutcome("null")
        /\ ops[o].result.caught.name = "TypeError"
        /\ ops[o].result.status = "returned"

\* C2: the category generateAIMetadata returns is always one of the six
\* names Technology, Business, Personal, Creative, Learning, Work. The
\* model's category is taken only when it equals one of them up to letter
\* case, and then in the canonical spelling; otherwise the category is the
\* value of inferCategoryFromContent.
C2_CategoryInClosedSet ==
    \A o \in OpIds :
        (ops[o].kind = "meta" /\ ops[o].pc = "done") =>
            LET op == ops[o]
                names == {"Technology", "Business", "Personal", "Creative", "Learning", "Work"}
                raw == propertyOf(extractJSON(trim(op.upstream.text)).value, "category")
                answered == op.upstream.kind = "text" /\ op.result.caught = NoError
                accepted == {c \in names : answered /\ raw.t = "str"
                                            /\ toLowerCase(c) = toLowerCase(raw.s)}
                category == op.result.metadata.category
            IN  /\ category \in names
                /\ accepted # {} => category \in accepted
                /\ accepted = {} => category = inferCategoryFromContent(op.title, op.content)

\* the model said "WORK" about an empty note, which the heuristics put in
\* Technology: the category returned is Work
C2_Witness ==
    \E o \in OpIds :
        /\ ops[o].kind = "meta" /\ ops[o].pc = "done"
        /\ ops[o].title = "" /\ ops[o].content = ""
        /\ ops[o].upstream.kind = "text"
        /\ includes(ops[o].upstream.text, "\"category\":\"WORK\"")
        /\ ops[o].result.metadata.category = "Work"

\* C3: the tags generateAIMetadata returns number between 0 and 5, and each
\* is lowercase and contains no white space, whatever the model did.
C3_TagsWellFormed ==
    \A o \in OpIds :
        (ops[o].kind = "meta" /\ ops[o].pc = "done") =>
            LET tags == ops[o].result.metadata.tags
            IN  /\ Len(tags) >= 0 /\ Len(tags) <= 5
                /\ \A k \in 1..Len(tags) :
                       /\ toLowerCase(tags[k]) = tags[k]
                       /\ \A i \in 1..Len(tags[k]) : ~IsSpace(CharAt(tags[k], i))

\* the model's tags "Web Dev", "caching", "note" came back as web-dev and
\* caching
C3_Witness ==
    \E o \in OpIds :
        /\ ops[o].kind = "meta" /\ ops[o].pc = "done"
        /\ ops[o].upstream.kind = "text"
        /\ includes(ops[o].upstream.text, "\"Web Dev\"")
        /\ ops[o].result.metadata.tags = <<"web-dev", "caching">>

\* C4: the summary generateAIMetadata returns has length greater than 0,
\* for all titles and contents (empty and white-space ones included) and
\* all model behaviours.
C4_SummaryNonEmpty ==
    \A o \in OpIds :
        (ops[o].kind = "meta" /\ ops[o].pc = "done") =>
            /\ ops[o].result.metadata.summary.t = "str"
            /\ Len(ops[o].result.metadata.summary.s) > 0

(***************************************************************************)
(* Properties of the rate limiter (under Spec)                             *)
(***************************************************************************)
\* C5: while now is before quotaExhaustedUntil every call of checkRateLimit
\* is rejected with AIQuotaError, whatever the window holds (nothing
\* included): the operation that made the call ends there, and the window
\* is left as it was.
C5_CooldownRejectsEveryCall ==
    [][now < quotaExhaustedUntil =>
          /\ \A ts \in {<<>>, callTimestamps} :
                 LET r == checkRateLimit(ts, quotaExhaustedUntil, now)
                 IN  r.threw /\ r.error.name = "AIQuotaError" /\ r.callTimestamps = ts
          /\ \A o \in OpIds :
                 (/\ ops[o].pc = "idle"
                  /\ ops'[o].kind \in {"meta", "query"}
                  /\ ~KeyMissing(ops'[o].apiKey)) =>
                     /\ ops'[o].pc = "done"
                     /\ ops'[o].admission = "rejected"
                     /\ ops'[o].admissionError.name = "AIQuotaError"
                     /\ ops'[o].result.status = IF ops'[o].kind = "query" THEN "threw" ELSE "returned"
                     /\ callTimestamps' = callTimestamps]_vars

\* a call was rejected during the cooldown with fewer than 10 timestamps in
\* the window
C5_Witness ==
    \E o \in OpIds :
        /\ ops[o].pc = "done"
        /\ ops[o].admission = "rejected"
        /\ ops[o].admissionError.waitSec > 0
        /\ now < quotaExhaustedUntil
        /\ Len(callTimestamps) < 10

\* C6: with the ceiling at 10, the window never holds more than 10
\* timestamps, and an 11th call is admitted only more than 60 s after the
\* first of the 10 admitted before it: no span of 60 s holds more than 10
\* admitted calls.
C6_CeilingHolds ==
    /\ Len(callTimestamps) <= 10
    /\ Len(recentAdmits) > 10 =>
           recentAdmits[Len(recentAdmits)] - recentAdmits[Len(recentAdmits) - 10] > 60000

\* the 11th call, made exactly 60 s after the 10 before it, was rejected by
\* the window
C6_Witness ==
    \E o \in OpIds :
        /\ ops[o].pc = "done"
        /\ ops[o].admission = "rejected"
        /\ ops[o].admissionError.message = "Too many AI requests. Please wait a minute before trying again."
        /\ Len(callTimestamps) = 10
        /\ now - callTimestamps[1] = 60000

\* C7: with the window full (10 timestamps) and no cooldown active, a call
\* made more than 60 s after the oldest timestamp is admitted, and its time
\* is recorded.
C7_AdmitsAgainAfterWindow ==
    [][\A o \in OpIds :
           (/\ ops[o].pc = "idle"
            /\ ops'[o].kind \in {"meta", "query"}
            /\ ~KeyMissing(ops'[o].apiKey)
            /\ Len(callTimestamps) = 10
            /\ now >= quotaExhaustedUntil
            /\ now - callTimestamps[1] > 60000) =>
               /\ ops'[o].admission = "admitted"
               /\ ops'[o].pc = "awaiting"
               /\ Len(callTimestamps') <= 10
               /\ callTimestamps'[Len(callTimestamps')] = now]_vars

\* ten calls were admitted within 60 s, and the next admitted call came more
\* than 60 s after the first of them and is now waiting for the upstream
C7_Witness ==
    /\ Len(recentAdmits) = 11
    /\ recentAdmits[10] - recentAdmits[1] <= 60000
    /\ recentAdmits[11] - recentAdmits[1] > 60000
    /\ recentAdmits[11] = now
    /\ \E o \in OpIds : ops[o].pc = "awaiting" /\ ops[o].admission = "admitted"

(***************************************************************************)
(* Admission before the upstream (under ConcurrentSpec)                    *)
(***************************************************************************)
\* C8: every request to the upstream is preceded, in the same operation, by
\* a checkRateLimit that returned: no operation waits for the upstream, or
\* has heard from it, without having been admitted.
C8_UpstreamOnlyAfterAdmission ==
    \A o \in OpIds :
        (ops[o].pc = "awaiting" \/ ops[o].upstream # NoOutcome) =>
            ops[o].admission = "admitted"

(***************************************************************************)
(* Properties of queryBrainAI (under DataSpec)                             *)
(***************************************************************************)
\* C9: every index of sourceIndices is at least 0 and less than the number
\* of items, none occurs twice, each is cited in the answer, and they come
\* in the order in which their citations first occur in the answer.
C9_SourceIndices ==
    \A o \in OpIds :
        (ops[o].kind = "query" /\ ops[o].pc = "done" /\ ops[o].result.status = "returned") =>
            LET text == ops[o].result.answer
                src == ops[o].result.sourceIndices
                cites(i) == {p \in 1..Len(text) :
                                /\ citationEnd(text, p) # 0
                                /\ parseInt(SubSeq(text, p + 1, citationEnd(text, p) - 1)) = i + 1}
            IN  /\ \A k \in 1..Len(src) :
                       src[k] >= 0 /\ src[k] < Len(ops[o].items) /\ cites(src[k]) # {}
                /\ \A k, l \in 1..Len(src) :
                       k < l => src[k] # src[l] /\ Min(cites(src[k])) < Min(cites(src[l]))

\* the answer cited [1], [3] and [1] again over three items: 0 and 2
C9_Witness ==
    \E o \in OpIds :
        /\ ops[o].kind = "query" /\ ops[o].pc = "done"
        /\ ops[o].result.answer = "See [1] and [3] and [1] again"
        /\ Len(ops[o].items) = 3
        /\ ops[o].result.sourceIndices = <<0, 2>>

\* C10: queryBrainAI throws AIConfigError only when the key is missing or a
\* placeholder or the upstream reported the model unavailable, AIQuotaError
\* only when admission was rejected or the upstream signalled a quota
\* limit; every other upstream failure, an empty response text included,
\* reaches the caller unchanged and untyped.
C10_TypedErrorsOnly ==
    \A o \in OpIds :
        (ops[o].kind = "query" /\ ops[o].pc = "done") =>
            LET op == ops[o]
                failed == op.upstream.kind = "throw"
                thrown == op.result.error
            IN  /\ (op.result.status = "threw" /\ thrown.name = "AIConfigError") =>
                       KeyMissing(op.apiKey) \/ (failed /\ op.upstream.error \in NotFoundErrors)
                /\ (op.result.status = "threw" /\ thrown.name = "AIQuotaError") =>
                       op.admission = "rejected" \/ (failed /\ op.upstream.error \in QuotaErrors)
                /\ (failed /\ op.upstream.error \in OtherErrors) =>
                       op.result.status = "threw" /\ thrown = op.upstream.error
                /\ op.upstream = TextOutcome("") =>
                       /\ op.result.status = "threw"
                       /\ thrown = Thrown("Error", "Empty response from Gemini", 0)

\* the upstream call failed with a network error, and queryBrainAI threw
\* that very error
C10_Witness ==
    \E o \in OpIds :
        /\ ops[o].kind = "query" /\ ops[o].pc = "done"
        /\ ops[o].admission = "admitted"
        /\ ops[o].upstream = ThrowOutcome(Thrown("Error", "fetch failed", 0))
        /\ ops[o].result.status = "threw"
        /\ ops[o].result.error = Thrown("Error", "fetch failed", 0)

(***************************************************************************)
(* More properties of generateAIMetadata (under DataSpec)                  *)
(***************************************************************************)
\* C11: whenever a step of generateAIMetadata fails (key missing, admission
\* rejected, upstream error, empty response, no JSON to extract, JSON null
\* or a category that is not a string), the three fields returned are those
\* of the offline heuristics for the same title and content.
C11_FailureFallsBackEntirely ==
    \A o \in OpIds :
        (ops[o].kind = "meta" /\ ops[o].pc = "done") =>
            LET op == ops[o]
                extracted == extractJSON(trim(op.upstream.text))
                category == propertyOf(extracted.value, "category")
                failed == \/ KeyMissing(op.apiKey)
                          \/ op.admission = "rejected"
                          \/ op.upstream.kind = "throw"
                          \/ op.upstream = TextOutcome("")
                          \/ /\ op.upstream.kind = "text"
                             /\ \/ extracted.threw
                                \/ extracted.value.t = "null"
                                \/ Truthy(category) /\ category.t # "str"
            IN  failed =>
                    /\ op.result.metadata.summary = JStr(buildOfflineSummary(op.title, op.content))
                    /\ op.result.metadata.tags = inferTagsFromContent(op.title, op.content)
                    /\ op.result.metadata.category = inferCategoryFromContent(op.title, op.content)

\* the model's text held no JSON: the note about React hooks got its
\* summary, tags and category from the heuristics
C11_Witness ==
    \E o \in OpIds :
        /\ ops[o].kind = "meta" /\ ops[o].pc = "done"
        /\ ops[o].title = ReactTitle /\ ops[o].content = ReactContent
        /\ ops[o].upstream = TextOutcome("not json at all")
        /\ ops[o].result.metadata.summary.s # ReactTitle
        /\ Len(ops[o].result.metadata.summary.s) > 20
        /\ ops[o].result.metadata.tags = <<"web-development">>
        /\ ops[o].result.metadata.category = "Technology"

\* C20: on the successful model path, a model summary that is missing,
\* empty or shorter than 10 characters is replaced by
\* buildOfflineSummary(title, content), and a model summary of 10
\* characters or more is returned unchanged.
C20_ShortSummaryReplaced ==
    \A o \in OpIds :
        (ops[o].kind = "meta" /\ ops[o].pc = "done"
         /\ ops[o].upstream.kind = "text" /\ ops[o].result.caught = NoError) =>
            LET op == ops[o]
                raw == propertyOf(extractJSON(trim(op.upstream.text)).value, "summary")
                summary == op.result.metadata.summary
            IN  /\ (raw.t \in {"undefined", "null"} \/ (raw.t = "str" /\ Len(raw.s) < 10)) =>
                       summary = JStr(buildOfflineSummary(op.title, op.content))
                /\ (raw.t = "str" /\ Len(raw.s) >= 10) => summary = raw

\* the model's summary "Too short" was replaced by the summary the
\* heuristics build from the content
C20_Witness ==
    \E o \in OpIds :
        /\ ops[o].kind = "meta" /\ ops[o].pc = "done"
        /\ ops[o].content = ReactContent
        /\ ops[o].upstream.kind = "text"
        /\ includes(ops[o].upstream.text, "\"summary\":\"Too short\"")
        /\ ops[o].result.caught = NoError
        /\ ops[o].result.metadata.summary = JStr(buildOfflineSummary(ops[o].title, ReactContent))
        /\ Len(ops[o].result.metadata.summary.s) > 20

(***************************************************************************)
(* Properties of queryBrain (under DataSpec)                               *)
(***************************************************************************)
\* C14: when a signed-in user's item list is empty or absent, queryBrain
\* returns the fixed "brain is empty" answer with no sources and does not
\* call queryBrainAI: no admission check, no timestamp recorded, no
\* upstream request.
C14_EmptyBrainShortCircuits ==
    [][\A o \in OpIds :
           (/\ ops[o].pc = "idle"
            /\ ops'[o].kind = "brain"
            /\ ops'[o].signedIn
            /\ Len(ops'[o].items) = 0) =>
               /\ ops'[o].pc = "done"
               /\ ops'[o].result.status = "returned"
               /\ ops'[o].result.answer = "Your brain is empty! Start by capturing some notes, links, or insights."
               /\ ops'[o].result.sources = <<>>
               /\ ops'[o].admission = "none"
               /\ ops'[o].upstream = NoOutcome
               /\ callTimestamps' = callTimestamps
               /\ recentAdmits' = recentAdmits
               /\ quotaExhaustedUntil' = quotaExhaustedUntil]_vars

\* a signed-in user with a valid key and no cooldown asked an empty brain
C14_Witness ==
    \E o \in OpIds :
        /\ ops[o].kind = "brain" /\ ops[o].pc = "done"
        /\ ops[o].signedIn
        /\ ops[o].apiKey = VALID_KEY
        /\ now >= quotaExhaustedUntil
        /\ ops[o].items = <<>>
        /\ ops[o].result.answer = BRAIN_EMPTY_ANSWER
        /\ ops[o].admission = "none"

(***************************************************************************)
(* Properties of operations in flight together (under ConcurrentSpec)      *)
(***************************************************************************)
\* C13: under every interleaving of metadata and query operations, which
\* suspend only while they wait for the upstream, the ceiling holds: the
\* window never has more than 10 timestamps and no 11 admitted calls lie
\* within 60 s of each other, so at most 10 admitted operations wait for
\* the upstream at once.
C13_CeilingUnderInterleaving ==
    /\ Len(callTimestamps) <= 10
    /\ \A i, j \in 1..Len(recentAdmits) :
           j - i >= 10 => recentAdmits[j] - recentAdmits[i] > 60000
    /\ Cardinality({o \in OpIds : ops[o].pc = "awaiting" /\ ops[o].admission = "admitted"}) <= 10

\* while one admitted operation waits for the upstream, the window is full
\* and another operation has been rejected by it
C13_Witness ==
    \E o1, o2 \in OpIds :
        /\ ops[o1].pc = "awaiting" /\ ops[o1].admission = "admitted"
        /\ ops[o2].pc = "done" /\ ops[o2].admission = "rejected"
        /\ ops[o2].admissionError.message = "Too many AI requests. Please wait a minute before trying again."
        /\ Len(callTimestamps) = 10

\* C15: the offline heuristics are deterministic and stateless: two runs
\* for the same title and content give the same summary, tags and
\* category, whatever ran in between and whatever the rate limiter holds,
\* and a run that only uses the heuristics leaves the limiter's state as it
\* was.
C15_HeuristicsStateless ==
    [][/\ \A o1, o2 \in OpIds :
              (/\ ops[o1].kind = "meta" /\ ops[o1].pc = "done"
               /\ ops[o2].kind = "meta" /\ ops[o2].pc = "done"
               /\ \A o \in {o1, o2} : \/ KeyMissing(ops[o].apiKey)
                                     \/ ops[o].admission = "rejected"
                                     \/ ops[o].upstream.kind = "throw"
               /\ ops[o1].title = ops[o2].title
               /\ ops[o1].content = ops[o2].content) =>
                  ops[o1].result.metadata = ops[o2].result.metadata
       /\ \A o \in OpIds :
              (/\ ops[o].pc = "idle"
               /\ ops'[o].kind = "meta"
               /\ KeyMissing(ops'[o].apiKey)) =>
                  /\ callTimestamps' = callTimestamps
                  /\ quotaExhaustedUntil' = quotaExhaustedUntil
                  /\ ops'[o].result.metadata =
                         Metadata(JStr(buildOfflineSummary(ops'[o].title, ops'[o].content)),
                                  inferTagsFromContent(ops'[o].title, ops'[o].content),
                                  inferCategoryFromContent(ops'[o].title, ops'[o].content))]_vars

\* two runs of the fallback for the same note, one with no key and an empty
\* window, one rejected during a cooldown with calls recorded, gave the
\* same metadata
C15_Witness ==
    \E o1, o2 \in OpIds :
        /\ ops[o1].kind = "meta" /\ ops[o1].pc = "done" /\ KeyMissing(ops[o1].apiKey)
        /\ ops[o2].kind = "meta" /\ ops[o2].pc = "done" /\ ops[o2].admission = "rejected"
        /\ Len(callTimestamps) > 0
        /\ ops[o1].result.metadata = ops[o2].result.metadata
        /\ ops[o1].result.metadata = Metadata(JStr("my sleep diet"), <<"health-wellness">>, "Personal")

(***************************************************************************)
(* The cooldown (under Spec and CooldownSpec)                              *)
(***************************************************************************)
\* C12, as stated: after markQuotaExhausted every attempt made before the
\* deadline is rejected with an AIQuotaError, and the hint of a later
\* attempt is strictly smaller than the hint of an earlier one.
C12_HintStrictlyDecreasing ==
    [][\A o \in OpIds :
           (/\ ops[o].pc = "idle"
            /\ ops'[o].kind \in {"meta", "query"}
            /\ now < quotaExhaustedUntil) =>
               /\ ops'[o].admission = "rejected"
               /\ ops'[o].admissionError.name = "AIQuotaError"
               /\ \A h \in hints :
                      h.at < now => ops'[o].admissionError.waitSec < h.waitSec]_vars

\* C12, amended: after markQuotaExhausted every attempt made before the
\* deadline is rejected with an AIQuotaError; the hint of a later attempt
\* is never larger than the hint of an earlier one, and it is strictly
\* smaller when the two attempts are at least one second apart.
C12_HintNonIncreasing ==
    [][\A o \in OpIds :
           (/\ ops[o].pc = "idle"
            /\ ops'[o].kind \in {"meta", "query"}
            /\ now < quotaExhaustedUntil) =>
               /\ ops'[o].admission = "rejected"
               /\ ops'[o].admissionError.name = "AIQuotaError"
               /\ \A h \in hints :
                      h.at < now =>
                          /\ ops'[o].admissionError.waitSec <= h.waitSec
                          /\ now - h.at >= 1000 => ops'[o].admissionError.waitSec < h.waitSec]_vars

\* an attempt at the start of the cooldown was told 60 s, and an attempt
\* one second later was told 59 s
C12_Witness ==
    \E o \in OpIds :
        /\ ops[o].pc = "done" /\ ops[o].admission = "rejected"
        /\ ops[o].admissionError.waitSec = 59
        /\ \E h \in hints : h.waitSec = 60 /\ now - h.at = 1000

\* C19: a cooldown rejection at time t carries the hint
\* w = ceiling((deadline - t) / 1000), with 1 <= w <= 60, and an attempt
\* made at t + w seconds or later, with no markQuotaExhausted in between,
\* is not rejected by the cooldown.
C19_HintNeverUnderstates ==
    [][\A o \in OpIds :
           (/\ ops[o].pc = "idle"
            /\ ops'[o].kind \in {"meta", "query"}) =>
               LET rejected == ops'[o].admission = "rejected"
                   w == ops'[o].admissionError.waitSec
                   left == quotaExhaustedUntil - now
                   cooldown == rejected /\ includes(ops'[o].admissionError.message, "temporarily exhausted")
               IN  /\ cooldown =>
                          /\ 1 <= w /\ w <= 60
                          /\ (w - 1) * 1000 < left /\ left <= w * 1000
                          /\ includes(ops'[o].admissionError.message,
                                      "Please wait ~" \o ToString(w) \o "s and try again.")
                   /\ \A h \in hints : now >= h.at + h.waitSec * 1000 => ~cooldown]_vars

\* an attempt at the start of the cooldown was told 60 s, and the attempt
\* made exactly 60 s later, at the deadline, was admitted
C19_Witness ==
    \E o \in OpIds, h \in hints :
        /\ h.waitSec = 60
        /\ now = h.at + h.waitSec * 1000
        /\ now = quotaExhaustedUntil
        /\ ops[o].pc = "awaiting" /\ ops[o].admission = "admitted"

\* C16: after every admission attempt, admitted, rejected by the ceiling
\* or rejected by the cooldown, the window holds no timestamp older than
\* 60 s at the time of the attempt.
C16_NoStaleTimestampAfterAttempt ==
    [][\A o \in OpIds :
           (/\ ops[o].pc = "idle"
            /\ ops'[o].kind \in {"meta", "query"}
            /\ ops'[o].admission \in {"admitted", "rejected"}) =>
               \A i \in 1..Len(callTimestamps') : now - callTimestamps'[i] <= 60000]_vars

\* C17: markQuotaExhausted sets the deadline to exactly the current time
\* plus 60 s, whatever it was, and leaves the window as it was; nothing
\* else moves the deadline; until the deadline an attempt is decided by the
\* cooldown, which neither reads nor changes the window.
C17_MarkSetsDeadlineOnly ==
    [][LET marking(o) ==
               /\ ops[o].pc = "awaiting"
               /\ ops[o].kind \in {"meta", "query"}
               /\ ops'[o].pc = "done"
               /\ ops'[o].upstream.kind = "throw"
               /\ \/ includes(ops'[o].upstream.error.message, "429")
                  \/ includes(toLowerCase(ops'[o].upstream.error.message), "quota")
       IN  /\ \A o \in OpIds :
                  marking(o) =>
                      /\ quotaExhaustedUntil' = now + 60000
                      /\ callTimestamps' = callTimestamps
                      /\ now' = now
           /\ quotaExhaustedUntil' # quotaExhaustedUntil => \E o \in OpIds : marking(o)
           /\ \A o \in OpIds :
                  (/\ ops[o].pc = "idle"
                   /\ ops'[o].kind \in {"meta", "query"}
                   /\ now < quotaExhaustedUntil) =>
                      /\ includes(ops'[o].admissionError.message, "temporarily exhausted")
                      /\ callTimestamps' = callTimestamps]_vars

\* calls were admitted at 0 and at 60 s; a quota signal at 60 s set the
\* deadline to 120 s and left the window with its two calls
C17_Witness ==
    /\ now = 60000
    /\ quotaExhaustedUntil = 120000
    /\ recentAdmits = <<0, 60000>>
    /\ callTimestamps = <<0, 60000>>
    /\ \E o \in OpIds : ops[o].pc = "done" /\ ops[o].upstream.kind = "throw"

\* C18: when the upstream fails with a quota signal ("429", or "quota" in
\* any case) at time t, also when the message matches "404" or "not found",
\* the operation fails with AIQuotaError and the cooldown starts; every
\* operation begun in [t, t + 60 s) fails with AIQuotaError and makes no
\* upstream request.
C18_QuotaSignalStartsCooldown ==
    [][\A o \in OpIds :
           /\ (/\ ops[o].pc = "awaiting"
               /\ ops[o].kind \in {"meta", "query"}
               /\ ops'[o].upstream.kind = "throw"
               /\ \/ includes(ops'[o].upstream.error.message, "429")
                  \/ includes(toLowerCase(ops'[o].upstream.error.message), "quota")) =>
                  /\ ops'[o].pc = "done"
                  /\ ops'[o].kind = "query" =>
                         /\ ops'[o].result.status = "threw"
                         /\ ops'[o].result.error.name = "AIQuotaError"
                  /\ ops'[o].kind = "meta" => ops'[o].result.caught.name = "AIQuotaError"
                  /\ quotaExhaustedUntil' = now + 60000
           /\ (/\ ops[o].pc = "idle"
               /\ ops'[o].kind \in {"meta", "query"}
               /\ quotaExhaustedUntil - 60000 <= now
               /\ now < quotaExhaustedUntil) =>
                  /\ ops'[o].pc = "done"
                  /\ ops'[o].upstream = NoOutcome
                  /\ ops'[o].kind = "query" =>
                         /\ ops'[o].result.status = "threw"
                         /\ ops'[o].result.error.name = "AIQuotaError"
                  /\ ops'[o].kind = "meta" => ops'[o].result.caught.name = "AIQuotaError"]_vars

\* a query whose upstream error matched both "quota" and "404" failed with
\* AIQuotaError and started the cooldown
C18_Witness ==
    \E o \in OpIds :
        /\ ops[o].kind = "query" /\ ops[o].pc = "done"
        /\ ops[o].upstream.error.message = "[404 Not Found] quota project not found"
        /\ ops[o].result.error.name = "AIQuotaError"
        /\ quotaExhaustedUntil = now + 60000

(***************************************************************************)
(* The context and the sources of a query (under DataSpec)                 *)
(***************************************************************************)
\* C23: the context queryBrainAI sends upstream has exactly
\* min(25, items.length) excerpts, one per item of the first 25 in input
\* order, numbered from 1 so that excerpt k describes items[k-1]; no item
\* after the 25th appears in it.
C23_ContextBounded ==
    \A o \in OpIds :
        (ops[o].kind \in {"query", "brain"} /\ ops[o].admission = "admitted") =>
            LET items == ops[o].items
                n == IF Len(items) < 25 THEN Len(items) ELSE 25
                lines == splitRuns(ops[o].context, {"\n"})
            IN  /\ Len(lines) = n
                /\ \A k \in 1..n :
                       /\ startsWith(lines[k], "[" \o ToString(k) \o "] \"" \o items[k].title
                                                   \o "\" (" \o items[k].type \o "): ")
                       /\ items[k].content # "" => includes(lines[k], items[k].content)
                /\ \A k \in (n + 1)..Len(items) :
                       ~includes(ops[o].context, "\"" \o items[k].title \o "\"")

\* a query over 26 items is with the upstream: its context ends with the
\* excerpt of the 25th item
C23_Witness ==
    \E o \in OpIds :
        /\ ops[o].kind = "query" /\ ops[o].pc = "awaiting"
        /\ Len(ops[o].items) = 26
        /\ startsWith(ops[o].context, "[1] \"Note 1\" (note): Content of note 1\n[2] \"Note 2\" (note): Summary of note 2\n")
        /\ includes(ops[o].context, "\n[25] \"Note 25\" (note): Content of note 25")
        /\ ~includes(ops[o].context, "[26]")

(***************************************************************************)
(* The tags of generateAIMetadata (under DataSpec)                         *)
(***************************************************************************)
\* C21: on the successful model path the model's tags are reduced, in this
\* order, to the non-empty strings, lower-cased with each run of white
\* space replaced by "-", stripped of the generic tags and cut to the first
\* 5; when nothing is left, or the tags are not a list, the tags are those
\* of inferTagsFromContent(title, content). No tag that generateAIMetadata
\* returns is a generic tag.
C21_TagPipeline ==
    \A o \in OpIds :
        (ops[o].kind = "meta" /\ ops[o].pc = "done") =>
            LET op == ops[o]
                tags == op.result.metadata.tags
                generic == {"idea", "content", "note", "learning", "information", "untagged"}
                raw == propertyOf(extractJSON(trim(op.upstream.text)).value, "tags")
                strings == IF raw.t = "arr"
                           THEN SelectSeq(raw.a, LAMBDA v : v.t = "str" /\ v.s # "")
                           ELSE <<>>
                shaped == [k \in 1..Len(strings) |->
                              replaceRuns(toLowerCase(strings[k].s), Spaces, "-")]
                kept == SelectSeq(shaped, LAMBDA x : x \notin generic)
                capped == SubSeq(kept, 1, IF Len(kept) < 5 THEN Len(kept) ELSE 5)
            IN  /\ (op.upstream.kind = "text" /\ op.result.caught = NoError) =>
                       tags = IF Len(capped) > 0
                              THEN capped
                              ELSE inferTagsFromContent(op.title, op.content)
                /\ \A k \in 1..Len(tags) : tags[k] \notin generic

\* the model's tags "idea", "Note", "" and 7 left nothing, and the note
\* about React hooks got the tag the heuristics infer
C21_Witness ==
    \E o \in OpIds :
        /\ ops[o].kind = "meta" /\ ops[o].pc = "done"
        /\ ops[o].content = ReactContent
        /\ ops[o].upstream.kind = "text"
        /\ includes(ops[o].upstream.text, "\"tags\":[\"idea\",\"Note\",\"\",7]")
        /\ ops[o].result.caught = NoError
        /\ ops[o].result.metadata.tags = <<"web-development">>

(***************************************************************************)
(* extractJSON (under DataSpec)                                            *)
(***************************************************************************)
\* C22: extractJSON tries the whole text, then the inside of the first
\* fenced block, then the text from the first "{" to the last "}", and
\* gives what the first of them that parses gives; when none parses it
\* fails with an error that holds at most the first 200 characters of the
\* text. A JSON object gives the same value bare, fenced, and wrapped in
\* prose that holds no brace.
C22_ExtractionTiers ==
    \A o \in OpIds :
        (/\ ops[o].kind = "meta" /\ ops[o].pc = "done"
         /\ ops[o].upstream.kind = "text" /\ ops[o].upstream.text # "") =>
            LET op == ops[o]
                text == trim(op.upstream.text)
                fence == fenceMatch(text)
                first == indexFrom(text, "{", 1)
                last == lastIndexOf(text, "}")
                tiers == <<text,
                           IF fence.matched THEN trim(fence.inner) ELSE "",
                           IF first # 0 /\ last > first THEN SubSeq(text, first, last) ELSE "">>
                good == {i \in 1..3 : ~JSONParse(tiers[i]).threw}
                from(doc) == generateAIMetadata(op.title, op.content,
                                                metadataFromText(op.title, op.content, doc))
            IN  /\ good = {} =>
                       /\ op.result.caught.name = "Error"
                       /\ op.result.caught.message =
                              "Could not extract JSON from: "
                                  \o SubSeq(text, 1, IF Len(text) < 200 THEN Len(text) ELSE 200)
                /\ good # {} => op.result = from(tiers[Min(good)])
                /\ \A doc \in DOMAIN JsonDocs :
                       (JsonDocs[doc].t = "obj" /\ text \in {doc, Fenced(doc), Wrapped(doc)}) =>
                           op.result = from(doc)

\* the text held a fenced null and, after it, an object in braces: the
\* fenced block was taken, and reading the summary of null failed
C22_Witness ==
    \E o \in OpIds :
        /\ ops[o].kind = "meta" /\ ops[o].pc = "done"
        /\ ops[o].upstream = TextOutcome(FencedThenBraces)
        /\ ops[o].result.caught.name = "TypeError"

(***************************************************************************)
(* buildOfflineSummary (under DataSpec)                                    *)
(***************************************************************************)
\* C26: when there is a candidate sentence, buildOfflineSummary gives each
\* candidate +3 for an importance keyword, +1 for each title word longer
\* than 3 characters it contains, +1 when it is not the first candidate,
\* +1 when its position is in the latter half of the list and +1 when it
\* is longer than 60 characters, and returns the two candidates of the
\* highest score, ties in their original order, joined by ". " and ended
\* by "."; the position is the candidate's own, also when its text occurs
\* earlier in the list.
C26_ScoredByOwnPosition ==
    \A o \in OpIds :
        (/\ ops[o].kind = "meta" /\ ops[o].pc = "done"
         /\ \/ ops[o].apiKey \in {"", "your_gemini_api_key"}
            \/ ops[o].admission = "rejected"
            \/ ops[o].upstream.kind = "throw") =>
            LET sentences == candidateSentences(ops[o].content)
                n == Len(sentences)
                titleWords == titleWordsOf(ops[o].title)
                points(k) ==
                    LET lower == toLowerCase(sentences[k])
                    IN  (IF testWords(importantKeywords, lower, wordsOf(lower)) THEN 3 ELSE 0)
                        + Cardinality({w \in 1..Len(titleWords) : includes(lower, titleWords[w])})
                        + (IF k > 1 THEN 1 ELSE 0)
                        + (IF 2 * (k - 1) >= n THEN 1 ELSE 0)
                        + (IF Len(sentences[k]) > 60 THEN 1 ELSE 0)
                ahead(k) == {j \in 1..n : points(j) > points(k) \/ (points(j) = points(k) /\ j < k)}
                at(r) == CHOOSE k \in 1..n : Cardinality(ahead(k)) = r - 1
                expected == IF n = 1 THEN sentences[1] \o "."
                            ELSE sentences[at(1)] \o ". " \o sentences[at(2)] \o "."
            IN  n > 0 => ops[o].result.metadata.summary = JStr(expected)

\* C30: generateAIMetadata never returns an empty tag list: the model's
\* usable tags, or else the tags of inferTagsFromContent, which are the
\* tags of the first 4 patterns that match, in the order of the patterns,
\* or the single tag "general" when no pattern matches.
C30_TagsNeverEmpty ==
    \A o \in OpIds :
        (ops[o].kind = "meta" /\ ops[o].pc = "done") =>
            LET op == ops[o]
                tags == op.result.metadata.tags
                raw == propertyOf(extractJSON(trim(op.upstream.text)).value, "tags")
                unusable(v) == \/ v.t # "str"
                               \/ v.s = ""
                               \/ toLowerCase(v.s) \in {"idea", "content", "note", "learning",
                                                        "information", "untagged"}
                inferred == \/ op.apiKey \in {"", "your_gemini_api_key"}
                            \/ op.admission = "rejected"
                            \/ op.upstream.kind = "throw"
                            \/ op.result.caught # NoError
                            \/ raw.t # "arr"
                            \/ \A k \in 1..Len(raw.a) : unusable(raw.a[k])
                text == toLowerCase(op.title \o " " \o op.content)
                matching == sortedSeq({i \in 1..Len(tagPatterns) :
                                          testWords(tagPatterns[i].alts, text, wordsOf(text))})
            IN  /\ Len(tags) >= 1
                /\ inferred =>
                       IF Len(matching) = 0
                       THEN tags = <<"general">>
                       ELSE /\ Len(tags) = (IF Len(matching) < 4 THEN Len(matching) ELSE 4)
                            /\ \A k \in 1..Len(tags) : tags[k] = tagPatterns[matching[k]].tag

\* with no key, a note that five patterns match got the tags of the first
\* four of them
C30_Witness ==
    \E o \in OpIds :
        /\ ops[o].kind = "meta" /\ ops[o].pc = "done"
        /\ ops[o].apiKey = ""
        /\ ops[o].title = PlanTitle /\ ops[o].content = UnbrokenContent
        /\ ops[o].result.metadata.tags = <<"web-development", "mobile-dev", "finance", "design">>
        /\ includes(toLowerCase(ops[o].title), "project")

\* C29: every source index queryBrainAI returns refers to an item of the
\* context sent to the model: it is below min(25, items.length), and a
\* citation number above the number of excerpts resolves to no item.
C29_SourcesWithinContext ==
    \A o \in OpIds :
        (ops[o].kind = "query" /\ ops[o].pc = "done" /\ ops[o].result.status = "returned") =>
            LET n == Len(ops[o].items)
                shown == Len(splitRuns(ops[o].context, {"\n"}))
                indices == ops[o].result.sourceIndices
            IN  \A k \in 1..Len(indices) :
                    /\ indices[k] < (IF n < 25 THEN n ELSE 25)
                    /\ indices[k] + 1 <= shown

(***************************************************************************)
(* The callers of queryBrainAI (under DataSpec)                            *)
(***************************************************************************)
\* C24: when queryBrainAI succeeds, its caller (queryBrain, and the public
\* route POST) returns as sources the items at the returned indices, in
\* order, and the first two items (the first min(2, n)) when there is no
\* valid citation: a successful answer over a non-empty list has sources.
C24_SourcesSubstituted ==
    \A o \in OpIds :
        (/\ ops[o].kind \in {"brain", "post"} /\ ops[o].pc = "done"
         /\ ops[o].upstream.kind = "text" /\ ops[o].upstream.text # "") =>
            LET items == ops[o].items
                sources == ops[o].result.sources
                cited == sourceIndicesOf(trim(ops[o].upstream.text), items)
                expected == IF Len(cited) > 0
                            THEN [k \in 1..Len(cited) |-> items[cited[k] + 1].id]
                            ELSE [k \in 1..(IF Len(items) < 2 THEN Len(items) ELSE 2) |-> items[k].id]
            IN  /\ [k \in 1..Len(sources) |-> sources[k].id] = expected
                /\ Len(sources) > 0

\* C25: queryBrain never propagates a failure of queryBrainAI: on an
\* AIConfigError it answers with the error's own message, on an
\* AIQuotaError with the fixed quota message, on any other error with the
\* fixed "trouble processing" message, and in all three cases with no
\* sources.
C25_FailuresAnswered ==
    \A o \in OpIds :
        (/\ ops[o].kind = "brain" /\ ops[o].pc = "done"
         /\ ops[o].signedIn /\ Len(ops[o].items) > 0
         /\ \/ ops[o].apiKey \in {"", "your_gemini_api_key"}
            \/ ops[o].admission = "rejected"
            \/ ops[o].upstream.kind = "throw"
            \/ ops[o].upstream = TextOutcome("")) =>
            LET result == ops[o].result
                err == result.caught
            IN  /\ result.status = "returned"
                /\ result.error = NoError
                /\ result.sources = <<>>
                /\ err # NoError
                /\ ops[o].apiKey \in {"", "your_gemini_api_key"} =>
                       /\ err.name = "AIConfigError"
                       /\ includes(result.answer, "is not configured")
                /\ ops[o].admission = "rejected" => err.name = "AIQuotaError"
                /\ result.answer =
                       CASE err.name = "AIConfigError" -> err.message
                         [] err.name = "AIQuotaError" ->
                                "AI quota exceeded - the free Gemini API tier has limited requests per minute. Please wait about a minute and try again."
                         [] OTHER ->
                                "I had trouble processing that. The AI service may be temporarily unavailable. Please try again in a moment."

\* the upstream failed with "fetch failed" on a query over three items:
\* queryBrain answered with the generic message and no sources
C25_Witness ==
    \E o \in OpIds :
        /\ ops[o].kind = "brain" /\ ops[o].pc = "done"
        /\ Len(ops[o].items) = 3
        /\ ops[o].upstream.error.message = "fetch failed"
        /\ ops[o].result.answer = TROUBLE_ANSWER
        /\ ops[o].result.sources = <<>>

(***************************************************************************)
(* What leaves the rate limiter alone (under KeySpec and Spec)             *)
(***************************************************************************)
\* C27: when the API key is missing or is the placeholder,
\* generateAIMetadata and queryBrainAI fail at getModel, before the
\* admission check: no timestamp is recorded, the window is not pruned and
\* the deadline of the cooldown is unchanged, however many such calls are
\* made.
C27_ConfigFailureLeavesLimiter ==
    [][\A o \in OpIds :
           (/\ ops[o].pc = "idle"
            /\ ops'[o].kind \in {"meta", "query"}
            /\ ops'[o].apiKey \in {"", "your_gemini_api_key"}) =>
               /\ ops'[o].pc = "done"
               /\ ops'[o].admission = "none"
               /\ ops'[o].upstream = NoOutcome
               /\ ops'[o].kind = "meta" => ops'[o].result.caught.name = "AIConfigError"
               /\ ops'[o].kind = "query" =>
                      /\ ops'[o].result.status = "threw"
                      /\ ops'[o].result.error.name = "AIConfigError"
               /\ callTimestamps' = callTimestamps
               /\ recentAdmits' = recentAdmits
               /\ quotaExhaustedUntil' = quotaExhaustedUntil]_vars

\* a query with the placeholder key, made when the one recorded call was
\* more than 60 s old and a cooldown was running, left both as they were
C27_Witness ==
    \E o \in OpIds :
        /\ ops[o].kind = "query" /\ ops[o].pc = "done"
        /\ ops[o].apiKey = PLACEHOLDER_KEY
        /\ ops[o].result.error.name = "AIConfigError"
        /\ callTimestamps = <<0>>
        /\ now = 60001
        /\ quotaExhaustedUntil = 120000

\* C28: a rejected admission neither consumes quota nor extends the
\* cooldown: a rejection by the cooldown leaves the window and the deadline
\* as they were; a rejection by the ceiling records no timestamp (it may
\* only drop expired ones) and leaves the deadline as it was; the deadline
\* moves only on a quota signal of the upstream.
C28_RejectionConsumesNothing ==
    [][/\ \A o \in OpIds :
              (/\ ops[o].pc = "idle"
               /\ ops'[o].kind \in {"meta", "query"}
               /\ ops'[o].admission = "rejected") =>
                  /\ quotaExhaustedUntil' = quotaExhaustedUntil
                  /\ recentAdmits' = recentAdmits
                  /\ ops'[o].upstream = NoOutcome
                  /\ now < quotaExhaustedUntil =>
                         /\ includes(ops'[o].admissionError.message, "temporarily exhausted")
                         /\ callTimestamps' = callTimestamps
                  /\ now >= quotaExhaustedUntil =>
                         /\ includes(ops'[o].admissionError.message, "Too many AI requests")
                         /\ Len(callTimestamps') <= Len(callTimestamps)
                         /\ \A i \in 1..Len(callTimestamps) :
                                IF i <= Len(callTimestamps) - Len(callTimestamps')
                                THEN callTimestamps[i] < now - 60000
                                ELSE callTimestamps[i] =
                                         callTimestamps'[i - (Len(callTimestamps) - Len(callTimestamps'))]
       /\ quotaExhaustedUntil' # quotaExhaustedUntil =>
              \E o \in OpIds :
                  /\ ops[o].pc = "awaiting"
                  /\ ops'[o].pc = "done"
                  /\ ops'[o].upstream.kind = "throw"
                  /\ \/ includes(ops'[o].upstream.error.message, "429")
                     \/ includes(toLowerCase(ops'[o].upstream.error.message), "quota")]_vars

\* the eleventh call within a minute was rejected by the ceiling: the
\* window still holds the ten admitted calls and no cooldown was started
C28_Witness ==
    \E o \in OpIds :
        /\ ops[o].pc = "done" /\ ops[o].admission = "rejected"
        /\ ops[o].admissionError.message = "Too many AI requests. Please wait a minute before trying again."
        /\ Len(callTimestamps) = 10
        /\ callTimestamps = recentAdmits
        /\ quotaExhaustedUntil = 0

====
